---- MODULE Spec2Model ----
(***************************************************************************)
(* A model of the FTP server of bwross/ftp: the control-channel Session    *)
(* (session.go), the command codec (channel.go) and the FileHandler        *)
(* dispatcher (handler.go).                                                *)
(*                                                                         *)
(* Strings that the code only compares or passes on are TLA+ strings.      *)
(* Command arguments and paths are sequences of tokens: "/" and names      *)
(* ("a", "b", ".."), so that <<"/", "a">> is "/a" and <<>> is "".          *)
(*                                                                         *)
(* The control connection is observed through the history `wire`: one      *)
(* entry for every line the session tries to read, every reply it writes   *)
(* and flushes, every write, read, flush and close of the data endpoint,   *)
(* and the close of the connection.  The dispatcher keeps the history of   *)
(* the command it is processing only.                                      *)
(***************************************************************************)
EXTENDS Integers, Sequences, FiniteSets, TLC

VARIABLES
    conn,       \* Session.conn: "open", or "nil" once the session is closed
    cmd,        \* Session.cmd: the pending command, or NoCmd
    greeted,    \* Session.greeted
    wire,       \* history of the events of the session, oldest first
    closes,     \* how many times the control connection's Close was called
    err,        \* the error the last Session call returned ("nil" for none)
    ret,        \* the command the last Session.Command call returned
    panicked,   \* the goroutine running the session hit a nil dereference
    link,       \* "up" while the client's end of the control connection is there
    calls,      \* number of Session calls made by the handler so far
    call,       \* the Session call made last: [op, code]
    Data,       \* Context.Data: the session's data endpoint, or NoData
    EPSVOnly,   \* Context.EPSVOnly
    Dir,        \* Context.Dir: the working directory
    renaming,   \* fileSession.renaming: the rename source, <<>> for ""
    fscall,     \* the FileSystem call made for the current command, or NoFs
    pc,         \* where fileSession.Handle stands
    prev,       \* the RNFR processed right before the current command, or
                \* NoPrev when the command before was no RNFR
    Type,       \* Context.Type
    Mode,       \* Context.Mode
    Old,        \* the data endpoints the session has let go of that still
                \* have an accept outstanding or a stream open
    bytes,      \* a payload, what is left of it to write, and what Conn.Write
                \* has passed on to the stream so far
    User,       \* Context.User, <<>> for ""
    Password,   \* Context.Password, <<>> for ""
    Authorizer, \* FileHandler.Authorizer / AuthHandler.Authorizer: "nil" or
                \* "set"
    authcall,   \* the Authorize call made for the current command, or NoAuth
    loggedIn,   \* a PASS has been answered 230 in this session
    file,       \* the contents of the file the transfers store and retrieve,
                \* or NoFile while it does not exist
    client      \* the Client and one clientFile of it

svars == <<conn, cmd, greeted, wire, closes, err, ret, panicked, link,
           Data, EPSVOnly, Dir, renaming, fscall, Type, Mode, User, Password>>
hvars == <<pc, prev>>
dvars == <<Old, bytes>>
xvars == <<Authorizer, authcall, loggedIn, file, client>>
vars == <<conn, cmd, greeted, wire, closes, err, ret, panicked, link,
          Data, EPSVOnly, Dir, renaming, fscall, calls, call, pc, prev,
          Type, Mode, Old, bytes, User, Password, Authorizer, authcall,
          loggedIn, file, client>>

----------------------------------------------------------------------------
(* Bounds *)

\* Session calls one handler makes in the session specification.
MaxCalls == 6

\* Calls on the data endpoint one handler makes.
MaxConnCalls == 5

----------------------------------------------------------------------------
(* channel.go: commands and replies *)

\* (*Command)(nil): no pending command.
NoCmd == [Cmd |-> "<nil>", Msg |-> <<>>]

\* new(Command): the zero command Decode leaves behind when it fails.
ZeroCmd == [Cmd |-> "", Msg |-> <<>>]

\* strings.ToUpper on the verbs the model sends.
ToUpper(v) ==
    CASE v = "quit" -> "QUIT"
      [] v = "noop" -> "NOOP"
      [] v = "rnto" -> "RNTO"
      [] OTHER -> v

\* Command.Decode on one line read from the control connection: the line is
\* [verb, msg], already split on the first space; "eof" when the read fails.
Decode(line, up) ==
    IF ~up THEN [err |-> "eof", c |-> ZeroCmd]
    ELSE IF line.verb = "" THEN [err |-> "empty", c |-> ZeroCmd]
    ELSE [err |-> "nil", c |-> [Cmd |-> ToUpper(line.verb), Msg |-> line.msg]]

\* (*Conn)(nil): no data endpoint.  The fields of an endpoint:
\*   kind      "passive" or "active", as it was built
\*   got       what the background Accept returned and listen has not stored
\*             yet: "none" while it has not returned, "conn", "err", and
\*             "stored" once listen has stored the result
\*   active    Conn.active: "none" for nil, else the state of the stream,
\*             "open" or "closed"
\*   aerr      Conn.err # nil
\*   lclosed   the listener has been closed
\*   buffered  the buffered writer holds bytes not yet flushed
\*   typ, mode Conn.typ, Conn.mode
\*   cr        Conn.cr
\*   closed    Conn.Close has been called on it
NoData ==
    [kind |-> "nil", got |-> "none", active |-> "none", aerr |-> FALSE,
     lclosed |-> FALSE, buffered |-> FALSE, typ |-> "", mode |-> "",
     cr |-> FALSE, closed |-> FALSE]

\* No payload under way.
NoBytes == [payload |-> <<>>, rest |-> <<>>, out |-> <<>>, n |-> 0]

\* No FileSystem call made.
NoFs == [op |-> "none", a |-> <<>>, b |-> <<>>]

\* What is remembered of an RNFR the dispatcher has just processed: its verb
\* and argument, the code of its final reply (0 for none), and src, the path
\* of the last RNFR answered 350 with nothing but RNFR processed since.
\* NoPrev stands for any other command, and for none.
NoPrev == [Cmd |-> "", Msg |-> <<>>, code |-> 0, src |-> <<>>]

\* No Authorize call made.
NoAuth == [user |-> <<"<none>">>, pass |-> <<>>, out |-> "none"]

\* The file does not exist.
NoFile == <<"<none>">>

\* No client.
NoClient == [conn |-> "nil"]

DefaultGreeting == "Welcome."
DefaultGoodbye == "Goodbye."

\* The transfer type and mode of a new session.
DefaultType == "I"
DefaultMode == "S"

\* The working directory of a new session.
DefaultDir == <<"/">>

----------------------------------------------------------------------------
(* session.go: Session.Command, Session.Reply, Session.Close               *)
(* Each takes and returns the session state as a record.                   *)

\* The session as a record.  gone is not part of the session: a call leaves
\* in it the data endpoint it has detached from the session, as it left it.
Cur ==
    [conn |-> conn, cmd |-> cmd, greeted |-> greeted, wire |-> wire,
     closes |-> closes, err |-> err, ret |-> ret, panicked |-> panicked,
     link |-> link, Data |-> Data, EPSVOnly |-> EPSVOnly, Dir |-> Dir,
     renaming |-> renaming, fscall |-> fscall, Type |-> Type, Mode |-> Mode,
     User |-> User, Password |-> Password, gone |-> NoData]

Store(t) ==
    /\ conn' = t.conn
    /\ cmd' = t.cmd
    /\ greeted' = t.greeted
    /\ wire' = t.wire
    /\ closes' = t.closes
    /\ err' = t.err
    /\ ret' = t.ret
    /\ panicked' = t.panicked
    /\ link' = t.link
    /\ Data' = t.Data
    /\ EPSVOnly' = t.EPSVOnly
    /\ Dir' = t.Dir
    /\ renaming' = t.renaming
    /\ fscall' = t.fscall
    /\ Type' = t.Type
    /\ Mode' = t.Mode
    /\ User' = t.User
    /\ Password' = t.Password

Ev(e, n, x) == [ev |-> e, n |-> n, x |-> x]

RECURSIVE Reply(_, _, _)
RECURSIVE Close(_)

\* Session.Reply without the "no command to reply to" check.
ReplyUnchecked(s, code, msg) ==
    IF s.conn = "nil" THEN [s EXCEPT !.err = "closed"]
    ELSE LET w == IF s.link # "down"
                  THEN [s EXCEPT !.wire = Append(@, Ev("reply", code, msg)),
                                 !.err = "nil"]
                  ELSE [s EXCEPT !.err = "io"]
         IN  IF w.err # "nil" THEN w
             ELSE IF code < 200 THEN w
             ELSE IF s.cmd = NoCmd THEN [w EXCEPT !.greeted = TRUE]
             ELSE LET c == [w EXCEPT !.cmd = NoCmd]
                  IN  IF s.cmd.Cmd = "QUIT" THEN Close(c) ELSE c

\* Session.Reply that leaves the session open after the reply to QUIT.
ReplyKeepsOpen(s, code, msg) ==
    IF s.conn = "nil" THEN [s EXCEPT !.err = "closed"]
    ELSE IF s.cmd = NoCmd /\ s.greeted THEN [s EXCEPT !.err = "nocmd"]
    ELSE LET w == IF s.link # "down"
                  THEN [s EXCEPT !.wire = Append(@, Ev("reply", code, msg)),
                                 !.err = "nil"]
                  ELSE [s EXCEPT !.err = "io"]
         IN  IF w.err # "nil" THEN w
             ELSE IF code < 200 THEN w
             ELSE IF s.cmd = NoCmd THEN [w EXCEPT !.greeted = TRUE]
             ELSE [w EXCEPT !.cmd = NoCmd]

\* Session.Close without the closed-session check.
CloseUnchecked(s) ==
    LET r == IF s.cmd # NoCmd \/ ~s.greeted
             THEN Reply(s, 421, DefaultGoodbye)
             ELSE s
    IN  [r EXCEPT !.wire = Append(@, Ev("close", 0, "")),
                  !.closes = @ + 1,
                  !.conn = "nil",
                  !.err = "nil"]

\* Session.Command that never sends the greeting.
CommandNoGreeting(s, line) ==
    IF s.conn = "nil" THEN [s EXCEPT !.err = "closed", !.ret = NoCmd]
    ELSE IF s.cmd # NoCmd THEN [s EXCEPT !.err = "nil", !.ret = s.cmd]
    ELSE LET d == Decode(line, s.link = "up")
             r == [s EXCEPT !.cmd = d.c,
                            !.wire = Append(@, Ev("read", 0, d.err)),
                            !.err = d.err]
         IN  IF d.err # "nil" THEN [r EXCEPT !.ret = NoCmd]
             ELSE [r EXCEPT !.ret = d.c]

\* Reply.Encode followed by conn.W.Flush: the reply reaches the wire unless
\* the write fails.
Encode(s, code, msg) ==
    IF s.link # "down"
    THEN [s EXCEPT !.wire = Append(@, Ev("reply", code, msg)), !.err = "nil"]
    ELSE [s EXCEPT !.err = "io"]

Reply(s, code, msg) ==
    IF s.conn = "nil" THEN [s EXCEPT !.err = "closed"]
    ELSE IF s.cmd = NoCmd /\ s.greeted THEN [s EXCEPT !.err = "nocmd"]
    ELSE LET w == Encode(s, code, msg) IN
         IF w.err # "nil" THEN w
         ELSE IF code < 200 THEN w
         ELSE IF s.cmd = NoCmd THEN [w EXCEPT !.greeted = TRUE]
         ELSE LET quit == s.cmd.Cmd = "QUIT"
                  c == [w EXCEPT !.cmd = NoCmd]
              IN  IF quit THEN Close(c) ELSE c

Close(s) ==
    IF s.conn = "nil" THEN [s EXCEPT !.err = "closed"]
    ELSE LET r == IF s.cmd # NoCmd \/ ~s.greeted
                  THEN Reply(s, 421, DefaultGoodbye)
                  ELSE s
         IN  IF r.conn = "nil"
             \* s.conn.Close() on a nil *textproto.Conn dereferences nil
             THEN [r EXCEPT !.panicked = TRUE]
             ELSE [r EXCEPT !.wire = Append(@, Ev("close", 0, "")),
                            !.closes = @ + 1,
                            !.conn = "nil",
                            !.err = "nil"]

Command(s, line) ==
    IF s.conn = "nil" THEN [s EXCEPT !.err = "closed", !.ret = NoCmd]
    ELSE LET g == IF ~s.greeted THEN Reply(s, 220, DefaultGreeting) ELSE s IN
         IF ~s.greeted /\ g.err # "nil" THEN [g EXCEPT !.ret = NoCmd]
         ELSE IF g.cmd # NoCmd THEN [g EXCEPT !.err = "nil", !.ret = g.cmd]
         ELSE LET d == Decode(line, g.link = "up")
                  r == [g EXCEPT !.cmd = d.c,
                                 !.wire = Append(@, Ev("read", 0, d.err)),
                                 !.err = d.err]
              IN  IF d.err # "nil" THEN [r EXCEPT !.ret = NoCmd]
                  ELSE [r EXCEPT !.ret = d.c]

----------------------------------------------------------------------------
(* A handler that uses the Session API in any order it likes.              *)

\* Lines the client sends in the session specification.
SessionLines ==
    { [verb |-> v, msg |-> <<>>] : v \in {"", "noop", "QUIT", "quit"} }

\* Reply codes the handler uses: preliminary and final.
SessionCodes == {150, 200}

NoCall == [op |-> "none", code |-> 0]

Init ==
    /\ conn = "open"
    /\ cmd = NoCmd
    /\ greeted = FALSE
    /\ wire = <<>>
    /\ closes = 0
    /\ err = "nil"
    /\ ret = NoCmd
    /\ panicked = FALSE
    /\ link = "up"
    /\ calls = 0
    /\ call = NoCall
    /\ Data = NoData
    /\ EPSVOnly = FALSE
    /\ Dir = DefaultDir
    /\ renaming = <<>>
    /\ fscall = NoFs
    /\ pc = "command"
    /\ prev = NoPrev
    /\ Type = DefaultType
    /\ Mode = DefaultMode
    /\ Old = {}
    /\ User = <<>>
    /\ Password = <<>>
    /\ Authorizer = "nil"
    /\ authcall = NoAuth
    /\ loggedIn = FALSE
    /\ file = NoFile
    /\ client = NoClient
    /\ bytes = NoBytes

CanCall == ~panicked /\ calls < MaxCalls

CallCommand ==
    /\ CanCall
    /\ \E line \in SessionLines : Store(Command(Cur, line))
    /\ calls' = calls + 1
    /\ call' = [op |-> "Command", code |-> 0]
    /\ UNCHANGED <<hvars, dvars, xvars>>

CallReply ==
    /\ CanCall
    /\ \E code \in SessionCodes :
          /\ Store(Reply(Cur, code, "msg"))
          /\ call' = [op |-> "Reply", code |-> code]
    /\ calls' = calls + 1
    /\ UNCHANGED <<hvars, dvars, xvars>>

CallClose ==
    /\ CanCall
    /\ Store(Close(Cur))
    /\ calls' = calls + 1
    /\ call' = [op |-> "Close", code |-> 0]
    /\ UNCHANGED <<hvars, dvars, xvars>>

\* The client goes away: it stops sending ("eof": reads fail, writes still
\* succeed) or the connection breaks ("down": reads and writes fail).
Drop ==
    /\ ~panicked
    /\ \/ link = "up" /\ link' \in {"eof", "down"}
       \/ link = "eof" /\ link' = "down"
    /\ UNCHANGED <<conn, cmd, greeted, wire, closes, err, ret, panicked,
                   Data, EPSVOnly, Dir, renaming, fscall, calls, call, pc, prev,
                   Type, Mode, User, Password, dvars, xvars>>

NextSession == CallCommand \/ CallReply \/ CallClose \/ Drop

SpecSession == Init /\ [][NextSession]_vars

----------------------------------------------------------------------------
(* context.go: Context.Path on token sequences                             *)

\* path.IsAbs
IsAbs(p) == Len(p) > 0 /\ p[1] = "/"

\* The names of a path, its "/" separators dropped.
Names(p) == SelectSeq(p, LAMBDA x : x # "/")

\* path.Clean on the names of a rooted path: "." is dropped and ".." removes
\* the name before it (or nothing at the root).
RECURSIVE Resolve(_, _)
Resolve(names, acc) ==
    IF names = <<>> THEN acc
    ELSE LET n == Head(names) IN
         IF n = "." THEN Resolve(Tail(names), acc)
         ELSE IF n = ".."
         THEN Resolve(Tail(names),
                      IF acc = <<>> THEN acc ELSE SubSeq(acc, 1, Len(acc) - 1))
         ELSE Resolve(Tail(names), Append(acc, n))

\* The rooted path with the given names: "/" alone for none.
RECURSIVE Rooted(_)
Rooted(names) ==
    IF names = <<>> THEN <<"/">>
    ELSE IF Len(names) = 1 THEN <<"/", names[1]>>
    ELSE <<"/", Head(names), "/">> \o Tail(Rooted(Tail(names)))

\* path.Join("/", dir, p)
Join(dir, p) == Rooted(Resolve(Names(dir) \o Names(p), <<>>))

\* Context.Path
Path(dir, p) == IF IsAbs(p) THEN p ELSE Join(dir, p)

----------------------------------------------------------------------------
(* conn.go: the data endpoint as the dispatcher uses it                    *)

\* PassiveConn(l): a listener, nothing accepted yet; listen is started.
PassiveConn ==
    [kind |-> "passive", got |-> "none", active |-> "none", aerr |-> FALSE,
     lclosed |-> FALSE, buffered |-> FALSE, typ |-> "", mode |-> "",
     cr |-> FALSE, closed |-> FALSE]

\* ActiveConn(c): a connected stream; no listen is started.
ActiveConn ==
    [kind |-> "active", got |-> "stored", active |-> "open", aerr |-> FALSE,
     lclosed |-> FALSE, buffered |-> FALSE, typ |-> "", mode |-> "",
     cr |-> FALSE, closed |-> FALSE]

\* Conn.listen, first half: c.passive.Accept() returns, with a connection
\* (r = "conn") or with an error (r = "err").
listenAccept(d, r) == [d EXCEPT !.got = r]

\* Conn.listen that goes back to accepting once it has stored a result.
listenAgain(d) ==
    [d EXCEPT !.active = IF d.got = "conn" THEN "open" ELSE @,
              !.aerr = (d.got = "err"),
              !.got = "none"]

\* Conn.listen, second half: under the mutex the result is stored, the
\* listener closed and the waiters woken.
listenStore(d) ==
    [d EXCEPT !.active = IF d.got = "conn" THEN "open" ELSE @,
              !.aerr = (d.got = "err"),
              !.lclosed = TRUE,
              !.got = "stored"]

\* Conn.Type
SetConnType(d, t) == [d EXCEPT !.typ = t]

\* Conn.Mode
SetConnMode(d, m) == [d EXCEPT !.mode = m]

\* Conn.Flush: writes out what Write has buffered; its error is dropped by
\* Close.
ConnFlush(s) ==
    IF s.Data.buffered
    THEN [s EXCEPT !.wire = Append(@, Ev("flush", 0,
                                IF s.Data.active = "open" THEN "ok" ELSE "err")),
                   !.Data.buffered = (s.Data.active # "open")]
    ELSE s

\* Conn.Close on s.Data: Flush, then close the stream if there is one and
\* the listener otherwise.  The error it returns is left in err.
ConnClose(s) ==
    LET f == ConnFlush(s) IN
    IF f.Data.active # "none"
    THEN [f EXCEPT !.wire = Append(@, Ev("dclose", 0, "stream")),
                   !.err = IF f.Data.active = "closed" THEN "closed" ELSE "nil",
                   !.Data.active = "closed",
                   !.Data.closed = TRUE]
    ELSE [f EXCEPT !.wire = Append(@, Ev("dclose", 0, "listener")),
                   !.err = IF f.Data.lclosed THEN "closed" ELSE "nil",
                   !.Data.lclosed = TRUE,
                   !.Data.closed = TRUE]

\* Conn.Write through io.Copy or Lister.WriteTo: the accept error if there is
\* one, else the bytes go to the buffered writer; ok is whether the copy
\* meets no error of its own.
ConnWrite(s, ok) ==
    IF s.Data.aerr THEN [s EXCEPT !.err = "accept"]
    ELSE IF ~ok THEN [s EXCEPT !.wire = Append(@, Ev("stream", 0, "out")),
                               !.err = "io"]
    ELSE [s EXCEPT !.wire = Append(@, Ev("stream", 0, "out")),
                   !.Data.buffered = TRUE,
                   !.err = "nil"]

\* Conn.Read through io.Copy: the accept error if there is one, else bytes
\* are read from the stream until its end.
ConnRead(s, ok) ==
    IF s.Data.aerr THEN [s EXCEPT !.err = "accept"]
    ELSE IF ~ok \/ s.Data.active # "open"
    THEN [s EXCEPT !.wire = Append(@, Ev("stream", 0, "in")), !.err = "io"]
    ELSE [s EXCEPT !.wire = Append(@, Ev("stream", 0, "in")), !.err = "nil"]

----------------------------------------------------------------------------
(* session.go: Session.Passive and Session.Active                          *)

\* Session.Passive: closes the endpoint there is, listens, and installs a
\* passive endpoint; ok is whether the listen succeeds.
Passive(s, ok) ==
    LET a == IF s.Data # NoData THEN ConnClose(s) ELSE s IN
    IF ~ok THEN [a EXCEPT !.err = "listen"]
    ELSE LET b == IF a.Data # NoData THEN ConnClose(a) ELSE a
         IN  [b EXCEPT !.gone = b.Data,
                       !.Data = SetConnType(PassiveConn, b.Type),
                       !.err = "nil"]

\* Session.Active: closes the endpoint there is, dials, and installs an
\* active endpoint; ok is whether the dial succeeds.
Active(s, ok) ==
    LET a == IF s.Data # NoData THEN ConnClose(s) ELSE s IN
    IF ~ok THEN [a EXCEPT !.err = "dial"]
    ELSE [a EXCEPT !.gone = a.Data,
                   !.Data = SetConnType(ActiveConn, a.Type),
                   !.err = "nil"]

\* Session.SetType that does not pass the type on to the data endpoint.
SetTypeSessionOnly(s, t) ==
    IF t \in {<<"L8">>, <<"I">>, <<"A">>, <<"AN">>}
    THEN [s EXCEPT !.Type = IF t \in {<<"L8">>, <<"I">>} THEN "I" ELSE "A",
                   !.err = "nil"]
    ELSE [s EXCEPT !.err = "Unrecognized type."]

\* Session.SetType on the tokens of a TYPE argument; err is left "nil" or
\* holds the text of the error.
SetType(s, t) ==
    IF t \in {<<"L8">>, <<"I">>, <<"A">>, <<"AN">>}
    THEN LET v == IF t \in {<<"L8">>, <<"I">>} THEN "I" ELSE "A" IN
         [s EXCEPT !.Type = v,
                   !.Data = IF s.Data # NoData THEN SetConnType(@, v) ELSE @,
                   !.err = "nil"]
    ELSE IF t \in {<<"AT">>, <<"AC">>}
    THEN [s EXCEPT !.err = "ASCII print mode is not supported."]
    ELSE IF t \in {<<"E">>, <<"EN">>, <<"ET">>, <<"EC">>}
    THEN [s EXCEPT !.err = "EBCDIC mode is not supported."]
    ELSE [s EXCEPT !.err = "Unrecognized type."]

\* Session.SetMode that lets block mode through.
SetModeAny(s, m) ==
    IF m \in {<<"S">>, <<"B">>}
    THEN [s EXCEPT !.Mode = m[1],
                   !.Data = IF s.Data # NoData THEN SetConnMode(@, m[1]) ELSE @,
                   !.err = "nil"]
    ELSE [s EXCEPT !.err = "Unrecognized mode."]

\* Session.SetMode on the tokens of a MODE argument.
SetMode(s, m) ==
    IF m = <<"S">>
    THEN [s EXCEPT !.Mode = "S",
                   !.Data = IF s.Data # NoData THEN SetConnMode(@, "S") ELSE @,
                   !.err = "nil"]
    ELSE IF m = <<"B">>
    THEN [s EXCEPT !.err = "Block mode is not supported."]
    ELSE IF m = <<"C">>
    THEN [s EXCEPT !.err = "Compressed mode is not supported."]
    ELSE [s EXCEPT !.err = "Unrecognized mode."]

----------------------------------------------------------------------------
(* conn.go: the address parsers on the arguments the model sends           *)

PortOK == <<"127,0,0,1,4,1">>
PortBad == <<"1,2,3">>
EprtOK == <<"|1|127.0.0.1|1025|">>
EprtBad == <<"|9|127.0.0.1|1025|">>

\* ParsePORT: six comma-separated bytes, else ErrInvalidSyntax.
ParsePORT(msg) == msg = PortOK

\* ParseEPRT: protocol 1 or 2, an address and a port between delimiters.
ParseEPRT(msg) == msg = EprtOK

----------------------------------------------------------------------------
(* handler.go: fileSession.handle, one operator per case                   *)

\* An error kind a FileSystem call can return.
FsErr == {"nil", "perm", "notexist", "other"}

FsCall(op, a, b) == [op |-> op, a |-> a, b |-> b]

\* USER, PASS, SYST, NOOP, QUIT and the default case: one fixed reply.
handleFixed(s, c) ==
    CASE c.Cmd = "USER" -> Reply(s, 530, "Cannot change user.")
      [] c.Cmd = "PASS" -> Reply(s, 230, "Already logged in.")
      [] c.Cmd = "SYST" -> Reply(s, 215, "UNIX Type: L8")
      [] c.Cmd = "NOOP" -> Reply(s, 200, "OK.")
      [] c.Cmd = "QUIT" -> Reply(s, 211, "Goodbye.")
      [] OTHER -> Reply(s, 502, "Not implemented.")


\* case "TYPE"
handleTYPE(s, c) ==
    LET t == SetType(s, c.Msg) IN
    IF t.err # "nil" THEN Reply(t, 504, t.err)
    ELSE Reply(t, 200, "Type switched successfully.")

\* case "MODE"
handleMODE(s, c) ==
    LET t == SetMode(s, c.Msg) IN
    IF t.err # "nil" THEN Reply(t, 504, t.err)
    ELSE Reply(t, 200, "Mode switched successfully.")

\* case "RNFR"
handleRNFR(s, c) ==
    IF c.Msg = <<>> THEN Reply(s, 501, "A file name is required.")
    ELSE Reply([s EXCEPT !.renaming = Path(s.Dir, c.Msg)],
               350, "Call RNTO to specify destination.")

\* case "RNTO" without the check that RNFR came first.
handleRNTONoCheck(s, c, e) ==
    IF c.Msg = <<>> THEN Reply(s, 501, "A file name is required.")
    ELSE LET r == [s EXCEPT !.fscall =
                        FsCall("Rename", s.renaming, Path(s.Dir, c.Msg))]
         IN  CASE e = "perm" -> Reply(r, 550, "Insufficient permissions.")
               [] e = "notexist" -> Reply(r, 550, "No such file.")
               [] e = "other" -> Reply(r, 550, "Could not rename file.")
               [] OTHER -> Reply(r, 250, "Successfully renamed file.")

\* case "RNTO"; e is what FileSystem.Rename returns.
handleRNTO(s, c, e) ==
    IF c.Msg = <<>> THEN Reply(s, 501, "A file name is required.")
    ELSE IF s.renaming = <<>> THEN Reply(s, 503, "Call RNFR first.")
    ELSE LET r == [s EXCEPT !.fscall =
                        FsCall("Rename", s.renaming, Path(s.Dir, c.Msg))]
         IN  CASE e = "perm" -> Reply(r, 550, "Insufficient permissions.")
               [] e = "notexist" -> Reply(r, 550, "No such file.")
               [] e = "other" -> Reply(r, 550, "Could not rename file.")
               [] OTHER -> Reply(r, 250, "Successfully renamed file.")

\* The endpoint dropped after HostPort or Port failed: closed and set to nil.
DropData(s) == LET c == ConnClose(s) IN [c EXCEPT !.gone = c.Data, !.Data = NoData]

\* case "PASV"; lok: the listen succeeds, aok: the address can be formatted.
handlePASV(s, lok, aok) ==
    IF s.EPSVOnly THEN Reply(s, 550, "PASV is disallowed.")
    ELSE LET p == Passive(s, lok) IN
         IF p.err # "nil" THEN Reply(p, 425, "Can't open data connection.")
         ELSE IF ~aok
         THEN Reply(DropData(p), 425, "Can't open data connection.")
         ELSE Reply(p, 227, "Entering Passive Mode (%s).")


\* case "EPSV"
handleEPSV(s, c, lok, aok) ==
    IF c.Msg = <<"ALL">>
    THEN Reply([s EXCEPT !.EPSVOnly = TRUE], 200, "EPSV ALL ok.")
    ELSE IF c.Msg \notin {<<"1">>, <<"2">>, <<>>}
    THEN Reply(s, 522, "Unsupported protocol.")
    ELSE LET p == Passive(s, lok) IN
         IF p.err # "nil" THEN Reply(p, 425, "Can't open data connection.")
         ELSE IF ~aok
         THEN Reply(DropData(p), 425, "Can't open data connection.")
         ELSE Reply(p, 229, "Entering Extended Passive Mode (|||%d|)")

\* case "PORT" without the EPSVOnly check.
handlePORTNoLatch(s, c, dok) ==
    IF ~ParsePORT(c.Msg) THEN Reply(s, 501, "Invalid syntax.")
    ELSE LET a == Active(s, dok) IN
         IF a.err # "nil" THEN Reply(a, 550, "Failed to connect.")
         ELSE Reply(a, 200, "OK")

\* case "PORT"; dok: the dial succeeds.
handlePORT(s, c, dok) ==
    IF s.EPSVOnly THEN Reply(s, 550, "PORT is disallowed.")
    ELSE IF ~ParsePORT(c.Msg) THEN Reply(s, 501, "Invalid syntax.")
    ELSE LET a == Active(s, dok) IN
         IF a.err # "nil" THEN Reply(a, 550, "Failed to connect.")
         ELSE Reply(a, 200, "OK")

\* case "EPRT"
handleEPRT(s, c, dok) ==
    IF s.EPSVOnly THEN Reply(s, 550, "EPRT is disallowed.")
    ELSE IF ~ParseEPRT(c.Msg) THEN Reply(s, 501, "Invalid syntax.")
    ELSE LET a == Active(s, dok) IN
         IF a.err # "nil" THEN Reply(a, 550, "Failed to connect.")
         ELSE Reply(a, 227, "OK")

\* stripListFlags: when the first token is a flag, the flags are dropped.
stripListFlags(m) ==
    IF m # <<>> /\ Head(m) = "-l"
    THEN SelectSeq(m, LAMBDA x : x # "-l")
    ELSE m

TransferVerbs == {"LIST", "NLST", "RETR", "STOR"}

\* retrieve, store and list without the check for a data endpoint.
beginTransferNoCheck(s, c, e) ==
    LET o == [s EXCEPT !.fscall =
                  FsCall(IF c.Cmd = "STOR" THEN "Create" ELSE "Open",
                         Path(s.Dir, c.Msg), <<>>)]
    IN  IF e # "nil" THEN [ConnClose(o) EXCEPT !.err = e]
        ELSE Reply(o, 150, "Here comes the file.")

\* retrieve, store and list that leave the data endpoint as it is when the
\* file cannot be opened.
beginTransferKeepsData(s, c, e) ==
    IF s.Data = NoData THEN [s EXCEPT !.err = "nodata"]
    ELSE LET o == [s EXCEPT !.fscall =
                       FsCall(IF c.Cmd = "STOR" THEN "Create" ELSE "Open",
                              Path(s.Dir, c.Msg), <<>>)]
         IN  IF e # "nil" THEN [o EXCEPT !.err = e]
             ELSE Reply(o, 150, "Here comes the file.")

\* retrieve, store and list up to the 150 reply.  e is what Open or Create
\* returns.  The error the function would return is left in err: "nodata"
\* for errNoDataConn, "nil" when the 150 is out and the copy comes next.
beginTransfer(s, c, e) ==
    IF s.Data = NoData THEN [s EXCEPT !.err = "nodata"]
    ELSE LET arg == IF c.Cmd \in {"LIST", "NLST"}
                    THEN stripListFlags(c.Msg) ELSE c.Msg
             o == [s EXCEPT !.fscall =
                       FsCall(IF c.Cmd = "STOR" THEN "Create" ELSE "Open",
                              Path(s.Dir, arg), <<>>)]
         IN  IF e # "nil" THEN [ConnClose(o) EXCEPT !.err = e]
             ELSE LET r == Reply(o, 150,
                                 CASE c.Cmd = "RETR" -> "Here comes the file."
                                   [] c.Cmd = "STOR" -> "Awaiting file data."
                                   [] OTHER -> "Here comes the list.")
                  IN  IF r.err # "nil" THEN [ConnClose(r) EXCEPT !.err = r.err]
                      ELSE r

\* The copy of retrieve and list: e is the error of reading the file or the
\* directory, empty is whether there is nothing to write, ok whether the
\* write succeeds.  LIST always writes its "total" line.
copyOut(s, c, e, empty, ok) ==
    IF e # "nil" THEN [s EXCEPT !.err = e]
    ELSE IF empty /\ c.Cmd # "LIST" THEN [s EXCEPT !.err = "nil"]
    ELSE ConnWrite(s, ok)

\* retrieve and list that report success before closing the data endpoint.
endTransferEarly(s, c, e, empty, ok) ==
    IF c.Cmd = "STOR"
    THEN LET r == ConnRead(s, ok) IN
         IF r.err # "nil" THEN [ConnClose(r) EXCEPT !.err = r.err]
         ELSE [ConnClose(r) EXCEPT !.err = e]
    ELSE LET w == copyOut(s, c, e, empty, ok) IN
         IF w.err # "nil" THEN [ConnClose(w) EXCEPT !.err = w.err]
         ELSE LET f == Reply(w, 226, "Transfer complete.")
              IN  [ConnClose(f) EXCEPT !.err = "nil"]

\* retrieve, store and list after the 150 reply: the copy, then the close
\* of the file and of the data endpoint.  For STOR e is what file.Close
\* returns.
endTransfer(s, c, e, empty, ok) ==
    IF c.Cmd = "STOR"
    THEN LET r == ConnRead(s, ok) IN
         IF r.err # "nil" THEN [ConnClose(r) EXCEPT !.err = r.err]
         ELSE [ConnClose(r) EXCEPT !.err = e]
    ELSE LET w == copyOut(s, c, e, empty, ok) IN
         IF w.err # "nil" THEN [ConnClose(w) EXCEPT !.err = w.err]
         ELSE ConnClose(w)


\* case "LIST", "NLST", "RETR", "STOR": the reply chosen by the error that
\* list, retrieve or store returned (in err).
replyTransfer(s, c) ==
    IF s.err = "nodata" THEN Reply(s, 425, "Use PORT or PASV first.")
    ELSE IF s.err = "perm" THEN Reply(s, 550, "Insufficient permissions.")
    ELSE IF s.err = "notexist" /\ c.Cmd # "STOR"
    THEN Reply(s, 550, IF c.Cmd = "RETR" THEN "No such file."
                       ELSE "No such directory.")
    ELSE IF s.err # "nil"
    THEN Reply(s, 550, CASE c.Cmd = "RETR" -> "Error retrieving file."
                         [] c.Cmd = "STOR" -> "Error storing file."
                         [] OTHER -> "Error listing directory.")
    ELSE Reply(s, 226, IF c.Cmd \in {"RETR", "STOR"} THEN "Transfer complete."
                       ELSE "Directory send OK.")

----------------------------------------------------------------------------
(* handler.go: fileSession.Handle, the dispatcher loop                     *)

\* Arguments of TYPE and MODE the client sends.
TypeTokens == {"L8", "I", "A", "AN", "AT", "AC", "E", "EN", "ET", "EC", "X"}
ModeTokens == {"S", "B", "C", "X"}

\* Lines the client sends to the dispatcher.
Lines ==
    { [verb |-> v, msg |-> <<>>] :
        v \in {"", "NOOP", "SYST", "USER", "PASS", "XYZZY", "QUIT", "PASV"} }
    \cup { [verb |-> v, msg |-> m] :
             v \in {"RNFR", "RNTO"}, m \in {<<>>, <<"/", "a">>, <<"b">>} }
    \cup { [verb |-> "EPSV", msg |-> m] :
             m \in {<<"ALL">>, <<"1">>, <<"2">>, <<>>, <<"3">>} }
    \cup { [verb |-> "TYPE", msg |-> <<m>>] : m \in TypeTokens }
    \cup { [verb |-> "MODE", msg |-> <<m>>] : m \in ModeTokens }
    \cup { [verb |-> v, msg |-> <<>>] : v \in {"TYPE", "MODE"} }
    \cup { [verb |-> "PORT", msg |-> m] : m \in {PortOK, PortBad} }
    \cup { [verb |-> "EPRT", msg |-> m] : m \in {EprtOK, EprtBad} }
    \cup { [verb |-> v, msg |-> <<"/", "a">>] : v \in TransferVerbs }

\* The code of the final reply written after the last read of w, 0 for none.
WireFinal(w) ==
    LET r == { i \in 1..Len(w) : w[i].ev = "read" }
        f == { i \in 1..Len(w) : /\ w[i].ev = "reply" /\ w[i].n >= 200
                                  /\ \A j \in r : j < i }
    IN  IF r = {} \/ f = {} THEN 0
        ELSE w[CHOOSE i \in f : \A k \in f : k <= i].n

FinalCode(s) == WireFinal(s.wire)

\* The command c as remembered once handle(c) has left the session as t.
Processed(t, c) ==
    IF c.Cmd # "RNFR" THEN NoPrev
    ELSE [Cmd |-> c.Cmd, Msg |-> c.Msg, code |-> FinalCode(t),
          src |-> IF FinalCode(t) = 350 THEN Path(t.Dir, c.Msg) ELSE prev.src]

Running == ~panicked

\* c, err := s.Command() with the client sending one of lines; the loop
\* goes on at `to` when a command was read and returns otherwise.
ReadFrom(lines, to) ==
    \E line \in lines :
        LET t == Command([Cur EXCEPT !.wire = <<>>, !.fscall = NoFs], line)
        IN  /\ Store(t)
            /\ pc' = IF t.err = "nil" THEN to ELSE "returned"

\* c, err := s.Command() in fileSession.Handle
DoCommand ==
    /\ Running /\ pc = "command"
    /\ ReadFrom(Lines, "handle")
    /\ UNCHANGED <<calls, call, prev, dvars, xvars>>

\* The end of one iteration of the loop that forgets the rename source
\* only after RNTO.
AfterKeepsSource(t, c) ==
    /\ Store(IF t.err = "nil" /\ c.Cmd = "RNTO"
             THEN [t EXCEPT !.renaming = <<>>] ELSE t)
    /\ pc' = IF t.err # "nil" \/ c.Cmd = "QUIT" THEN "returned" ELSE "command"
    /\ prev' = Processed(t, c)
    /\ UNCHANGED <<calls, call, dvars, xvars>>

\* The end of one iteration of the loop, t being the session as handle(c)
\* left it: return on an error and after QUIT, else forget the rename
\* source unless the command was RNFR.
After(t, c) ==
    /\ Store(IF t.err = "nil" /\ c.Cmd \notin {"QUIT", "RNFR"}
             THEN [t EXCEPT !.renaming = <<>>] ELSE t)
    /\ pc' = IF t.err # "nil" \/ c.Cmd = "QUIT" THEN "returned" ELSE "command"
    /\ prev' = Processed(t, c)
    /\ UNCHANGED <<calls, call, dvars, xvars>>

Handling(verbs) == Running /\ pc = "handle" /\ cmd.Cmd \in verbs

HandleFixed ==
    /\ Running /\ pc = "handle"
    /\ cmd.Cmd \notin {"TYPE", "MODE", "RNFR", "RNTO", "PASV", "EPSV",
                        "PORT", "EPRT", "PWD", "CWD", "CDUP"}
                          \cup TransferVerbs
    /\ After(handleFixed(Cur, cmd), cmd)

HandleTYPE ==
    /\ Handling({"TYPE"})
    /\ After(handleTYPE(Cur, cmd), cmd)

HandleMODE ==
    /\ Handling({"MODE"})
    /\ After(handleMODE(Cur, cmd), cmd)

HandleRNFR ==
    /\ Handling({"RNFR"})
    /\ After(handleRNFR(Cur, cmd), cmd)

HandleRNTO ==
    /\ Handling({"RNTO"})
    /\ \E e \in FsErr : After(handleRNTO(Cur, cmd, e), cmd)

HandlePASV ==
    /\ Handling({"PASV"})
    /\ \E lok, aok \in BOOLEAN : After(handlePASV(Cur, lok, aok), cmd)

HandleEPSV ==
    /\ Handling({"EPSV"})
    /\ \E lok, aok \in BOOLEAN : After(handleEPSV(Cur, cmd, lok, aok), cmd)

HandlePORT ==
    /\ Handling({"PORT"})
    /\ \E dok \in BOOLEAN : After(handlePORT(Cur, cmd, dok), cmd)

HandleEPRT ==
    /\ Handling({"EPRT"})
    /\ \E dok \in BOOLEAN : After(handleEPRT(Cur, cmd, dok), cmd)

\* LIST, NLST, RETR, STOR up to the 150 reply, or to the final reply when
\* the transfer does not start.
HandleTransfer ==
    /\ Handling(TransferVerbs)
    /\ \E e \in FsErr :
          LET t == beginTransfer(Cur, cmd, e) IN
          IF t.err = "nil"
          THEN /\ Store(t)
               /\ pc' = "transfer"
               /\ UNCHANGED <<calls, call, prev, dvars, xvars>>
          ELSE After(replyTransfer(t, cmd), cmd)

\* Conn.accept, as LocalAddr, RemoteAddr and the SetDeadline calls use it:
\* it waits while no stream is set or no error is set.
acceptWaits(d) == d.active = "none" \/ ~d.aerr

\* The wait of Conn.Read and Conn.Write with the condition of Conn.accept.
ReadyBoth(d) == ~acceptWaits(d)

\* Conn.Read and Conn.Write wait while nothing is accepted and no accept
\* error is set.
Ready(d) == d.active # "none" \/ d.aerr

\* LIST, NLST, RETR, STOR from the copy to the final reply.
FinishTransfer ==
    /\ Running /\ pc = "transfer"
    /\ \E e \in FsErr, empty, ok \in BOOLEAN :
          /\ \/ Ready(Data)
             \/ cmd.Cmd # "STOR" /\ e # "nil"
             \/ cmd.Cmd \in {"RETR", "NLST"} /\ empty
          /\ After(replyTransfer(endTransfer(Cur, cmd, e, empty, ok), cmd), cmd)

\* Conn.listen: the background Accept of the passive endpoint returns a
\* connection; the listener was still open when the client connected.
Accept ==
    /\ Running
    /\ Data.kind = "passive" /\ Data.got = "none" /\ ~Data.lclosed
    /\ Data' = listenAccept(Data, "conn")
    /\ UNCHANGED <<conn, cmd, greeted, wire, closes, err, ret, panicked, link,
                   EPSVOnly, Dir, renaming, fscall, calls, call, pc, prev,
                   Type, Mode, User, Password, dvars, xvars>>

\* Conn.listen: the background Accept returns an error, as it does when the
\* listener is closed.
AcceptFail ==
    /\ Running
    /\ Data.kind = "passive" /\ Data.got = "none"
    /\ Data' = listenAccept(Data, "err")
    /\ UNCHANGED <<conn, cmd, greeted, wire, closes, err, ret, panicked, link,
                   EPSVOnly, Dir, renaming, fscall, calls, call, pc, prev,
                   Type, Mode, User, Password, dvars, xvars>>

\* Conn.listen: the result of Accept is stored.
Listen ==
    /\ Running
    /\ Data.got \in {"conn", "err"}
    /\ Data' = listenStore(Data)
    /\ UNCHANGED <<conn, cmd, greeted, wire, closes, err, ret, panicked, link,
                   EPSVOnly, Dir, renaming, fscall, calls, call, pc, prev,
                   Type, Mode, User, Password, dvars, xvars>>

\* The server closes the session when the handler has returned.
ServerClose ==
    /\ Running /\ pc = "returned"
    /\ Store(Close(Cur))
    /\ pc' = "closed"
    /\ UNCHANGED <<calls, call, prev, dvars, xvars>>

Next ==
    \/ DoCommand
    \/ HandleFixed
    \/ HandleTYPE
    \/ HandleMODE
    \/ HandleRNFR
    \/ HandleRNTO
    \/ HandlePASV
    \/ HandleEPSV
    \/ HandlePORT
    \/ HandleEPRT
    \/ HandleTransfer
    \/ FinishTransfer
    \/ Accept
    \/ AcceptFail
    \/ Listen
    \/ ServerClose
    \/ Drop

Spec == Init /\ [][Next]_vars

----------------------------------------------------------------------------
(* A handler that uses the data endpoint of its session in any order it    *)
(* likes, next to the goroutines the passive endpoints have started.  The  *)
(* history `wire` is that of the call made last.                           *)

InitConn ==
    /\ conn = "open"
    /\ cmd = NoCmd
    /\ greeted = FALSE
    /\ wire = <<>>
    /\ closes = 0
    /\ err = "nil"
    /\ ret = NoCmd
    /\ panicked = FALSE
    /\ link = "up"
    /\ calls = 0
    /\ call = NoCall
    /\ Data = NoData
    /\ EPSVOnly = FALSE
    /\ Dir = DefaultDir
    /\ renaming = <<>>
    /\ fscall = NoFs
    /\ pc = "idle"
    /\ prev = NoPrev
    /\ Type = DefaultType
    /\ Mode = DefaultMode
    /\ Old = {}
    /\ User = <<>>
    /\ Password = <<>>
    /\ Authorizer = "nil"
    /\ authcall = NoAuth
    /\ loggedIn = FALSE
    /\ file = NoFile
    /\ client = NoClient
    /\ bytes = NoBytes

\* An endpoint that still has its accept outstanding or a stream open.
Live(d) == d.kind # "nil" /\ (d.got # "stored" \/ d.active = "open")

\* The session at the start of a call.
AtCall == [Cur EXCEPT !.wire = <<>>]

\* What a call leaves behind: the session as t, the call counted, the
\* endpoint it has detached added to those let go of.
Called(op, t, at) ==
    /\ Store(t)
    /\ calls' = calls + 1
    /\ call' = [op |-> op, code |-> 0]
    /\ pc' = at
    /\ Old' = Old \cup (IF Live(t.gone) THEN {t.gone} ELSE {})
    /\ UNCHANGED <<prev, bytes, xvars>>

CanCallConn == calls < MaxConnCalls /\ pc = "idle"

\* s.Passive()
CallPassive ==
    /\ CanCallConn
    /\ \E ok \in BOOLEAN : Called("Passive", Passive(AtCall, ok), "idle")

\* s.Active(hp)
CallActive ==
    /\ CanCallConn
    /\ \E ok \in BOOLEAN : Called("Active", Active(AtCall, ok), "idle")

\* s.Data.Write(b): waits, or returns at once.
CallWrite ==
    /\ CanCallConn /\ Data # NoData
    /\ IF Ready(Data)
       THEN \E ok \in BOOLEAN : Called("Write", ConnWrite(AtCall, ok), "idle")
       ELSE Called("Write", AtCall, "write")

\* s.Data.Read(b): waits, or returns at once.
CallRead ==
    /\ CanCallConn /\ Data # NoData
    /\ IF Ready(Data)
       THEN \E ok \in BOOLEAN : Called("Read", ConnRead(AtCall, ok), "idle")
       ELSE Called("Read", AtCall, "read")

\* s.Data.LocalAddr() and the other callers of Conn.accept: waits, or
\* returns at once.
CallAccessor ==
    /\ CanCallConn /\ Data # NoData
    /\ Called("LocalAddr", AtCall, IF acceptWaits(Data) THEN "accessor" ELSE "idle")

\* s.Data.Close(), by the handler or, while the handler waits in a call, by
\* another goroutine.
CallCloseData ==
    /\ calls < MaxConnCalls /\ Data # NoData
    /\ Called("Close", ConnClose(AtCall), pc)

\* The waiting call is woken by the broadcast of listen, finds its condition
\* met and goes on.
Resume ==
    /\ \/ pc = "write" /\ Ready(Data)
          /\ \E ok \in BOOLEAN : Store(ConnWrite(Cur, ok))
       \/ pc = "read" /\ Ready(Data)
          /\ \E ok \in BOOLEAN : Store(ConnRead(Cur, ok))
       \/ pc = "accessor" /\ ~acceptWaits(Data)
          /\ Store(Cur)
    /\ pc' = "idle"
    /\ UNCHANGED <<calls, call, prev, dvars, xvars>>

\* Conn.listen of an endpoint let go of: its Accept returns an error, the
\* listener being closed.
OldAcceptFail ==
    /\ \E d \in Old :
          /\ d.got = "none"
          /\ Old' = (Old \ {d}) \cup {listenAccept(d, "err")}
    /\ UNCHANGED <<svars, hvars, calls, call, bytes, xvars>>

\* Conn.listen of an endpoint let go of: the result of Accept is stored.
OldListen ==
    /\ \E d \in Old :
          /\ d.got \in {"conn", "err"}
          /\ Old' = (Old \ {d})
                    \cup (IF Live(listenStore(d)) THEN {listenStore(d)} ELSE {})
    /\ UNCHANGED <<svars, hvars, calls, call, bytes, xvars>>

NextConn ==
    \/ CallPassive
    \/ CallActive
    \/ CallWrite
    \/ CallRead
    \/ CallAccessor
    \/ CallCloseData
    \/ Resume
    \/ Accept
    \/ AcceptFail
    \/ Listen
    \/ OldAcceptFail
    \/ OldListen

SpecConn == InitConn /\ [][NextConn]_vars

----------------------------------------------------------------------------
(* Properties of the Session API (SpecSession)                             *)

IsCall(op) == calls' = calls + 1 /\ call'.op = op

IsFinal(e) == e.ev = "reply" /\ e.n >= 200
IsPrelim(e) == e.ev = "reply" /\ e.n < 200
ReadIdx == { i \in 1..Len(wire) : wire[i].ev = "read" }
FinalIdx == { i \in 1..Len(wire) : IsFinal(wire[i]) }

\* The non-preliminary replies written after entry i and before the next read.
FinalsAfter(i) ==
    { k \in FinalIdx : k > i /\ \A j \in ReadIdx : ~(i < j /\ j < k) }

\* The wire entries a step has added.
Added == SubSeq(wire', Len(wire) + 1, Len(wire'))

\* C1 (state part): between one read of the control connection and the
\* next, exactly one non-preliminary reply is written, and never more than
\* one after the last read; preliminary replies are not counted.
C1_OneFinalPerRead ==
    \A i \in ReadIdx :
        /\ Cardinality(FinalsAfter(i)) <= 1
        /\ (\E j \in ReadIdx : j > i) => Cardinality(FinalsAfter(i)) = 1

\* C1 (step part): a non-preliminary Reply while no command is pending (and
\* the greeting has been sent) is rejected and writes nothing.
C1_RejectsSecondFinal ==
    (/\ IsCall("Reply")
     /\ call'.code >= 200
     /\ conn = "open" /\ cmd = NoCmd /\ greeted)
    => (wire' = wire /\ err' = "nocmd" /\ cmd' = NoCmd /\ conn' = "open")

\* C1: for every command, exactly one non-preliminary reply is emitted before
\* the next command is read (a read is one Decode of the control connection),
\* preceded by any number of preliminary replies; a second non-preliminary
\* Reply with no pending command is rejected without writing anything.
C1_OneReplyPerCommand ==
    []C1_OneFinalPerRead /\ [][C1_RejectsSecondFinal]_vars

\* A command got a preliminary and then a final reply, the next command
\* was read and answered, and one more final Reply has just been rejected.
C1_Witness ==
    /\ err = "nocmd"
    /\ \E i, j \in ReadIdx :
          /\ i < j
          /\ \E p, f \in i+1..j-1 :
                p < f /\ IsPrelim(wire[p]) /\ IsFinal(wire[f])

\* C2: a preliminary Reply leaves the command pending and the next Command
\* returns it without reading; a non-preliminary Reply that is written clears
\* the pending command; if that command was QUIT the connection is closed
\* right after the reply, and Command on the closed session returns
\* SessionClosed.
C2_ReplyStep ==
    /\ (IsCall("Reply") /\ call'.code < 200 /\ conn = "open" /\ cmd # NoCmd)
       => (cmd' = cmd /\ conn' = "open")
    /\ (IsCall("Command") /\ conn = "open" /\ cmd # NoCmd)
       => (ret' = cmd /\ cmd' = cmd /\ err' = "nil" /\ wire' = wire)
    /\ (IsCall("Reply") /\ call'.code >= 200 /\ conn = "open" /\ cmd # NoCmd
          /\ link # "down")
       => /\ cmd' = NoCmd
          /\ IF cmd.Cmd = "QUIT"
             THEN /\ conn' = "nil"
                  /\ closes' = closes + 1
                  /\ Added = <<Ev("reply", call'.code, "msg"), Ev("close", 0, "")>>
             ELSE /\ conn' = "open"
                  /\ Added = <<Ev("reply", call'.code, "msg")>>
    /\ (IsCall("Command") /\ conn = "nil")
       => (err' = "closed" /\ ret' = NoCmd /\ wire' = wire)

C2_ReplyClearsOrKeeps == [][C2_ReplyStep]_vars

\* QUIT got a preliminary reply, was returned again, got its final reply,
\* and the Command after that returned SessionClosed.
C2_Witness ==
    /\ call.op = "Command" /\ err = "closed" /\ conn = "nil"
    /\ Len(wire) >= 4
    /\ wire[Len(wire)].ev = "close"
    /\ IsFinal(wire[Len(wire) - 1])
    /\ IsPrelim(wire[Len(wire) - 2])
    /\ wire[Len(wire) - 3].ev = "read"

\* C3: Close on an open session with a pending command (QUIT included) or
\* with no greeting sent writes one 421 goodbye if the write succeeds, then
\* closes the control connection exactly once and returns normally.
C3_CloseStep ==
    (IsCall("Close") /\ conn = "open" /\ (cmd # NoCmd \/ ~greeted))
    => /\ ~panicked'
       /\ conn' = "nil"
       /\ closes' = closes + 1
       /\ Added = IF link # "down"
                  THEN <<Ev("reply", 421, DefaultGoodbye), Ev("close", 0, "")>>
                  ELSE <<Ev("close", 0, "")>>

C3_CloseSendsGoodbye == [][C3_CloseStep]_vars

\* C4: once the session is closed, every Command, Reply and Close returns
\* SessionClosed, writes nothing and does not close the connection again.
C4_ClosedStep ==
    (calls' = calls + 1 /\ conn = "nil")
    => /\ err' = "closed"
       /\ wire' = wire
       /\ closes' = closes
       /\ conn' = "nil"
       /\ ~panicked'

C4_ClosedStaysClosed == [](closes <= 1) /\ [][C4_ClosedStep]_vars

\* The session was closed by the reply to QUIT and a later Close returned
\* SessionClosed.
C4_Witness ==
    /\ call.op = "Close" /\ err = "closed" /\ conn = "nil" /\ closes = 1
    /\ Len(wire) >= 2
    /\ IsFinal(wire[Len(wire) - 1])
    /\ wire[Len(wire) - 1].x = "msg"

GreetingIdx ==
    { i \in 1..Len(wire) : wire[i] = Ev("reply", 220, DefaultGreeting) }

\* C5 (state part): Command's 220 greeting is on the wire at most once, is
\* recorded in greeted, and precedes every read; before the first read
\* exactly one non-preliminary reply (the greeting) was written.
C5_GreetingOnce ==
    /\ Cardinality(GreetingIdx) <= 1
    /\ GreetingIdx # {} => greeted
    /\ \A g \in GreetingIdx : \A j \in ReadIdx : g < j
    /\ ReadIdx # {} =>
          Cardinality({ k \in FinalIdx : \A j \in ReadIdx : k < j }) = 1

\* C5 (step part): a Command call on an ungreeted session writes the greeting
\* first and records it; a Command call on a greeted session writes none.
C5_CommandStep ==
    /\ (IsCall("Command") /\ conn = "open" /\ ~greeted /\ link # "down")
       => /\ greeted'
          /\ Len(Added) >= 1
          /\ Added[1] = Ev("reply", 220, DefaultGreeting)
    /\ (IsCall("Command") /\ greeted)
       => \A i \in 1..Len(Added) : Added[i].ev # "reply"

C37_Step ==
    (calls' = calls + 1 /\ call'.op = "Command") =>
       /\ err' \in {"eof", "empty"} => cmd' = NoCmd
       /\ err' = "nil" => ret'.Cmd # ""

C37_NoEmptyCommand == [][C37_Step]_vars

----------------------------------------------------------------------------
(* Properties of the dispatcher (Spec)                                     *)

\* A step in which handle(c) runs for a command with one of the verbs and
\* the control connection can still be written to.
Handles(verbs) ==
    pc = "handle" /\ pc' # "handle" /\ cmd.Cmd \in verbs /\ link # "down"

\* The call of FileSystem.Rename a step makes, if it makes one.
Renames == fscall'.op = "Rename" /\ fscall.op # "Rename"

\* C6 (as stated): an RNTO whose immediately preceding command was not an
\* RNFR replies 503, whatever its argument.
C6_Step ==
    (Handles({"RNTO"}) /\ prev.Cmd # "RNFR")
    => (WireFinal(wire') = 503 /\ fscall' = NoFs)

C6_RNTOWithoutRNFR == [][C6_Step]_vars

\* C6 (amended): an RNTO whose immediately preceding command was not an RNFR
\* replies 503 for every non-empty argument and 501 for the empty argument,
\* and calls Rename in neither case.
C6_AmendedStep ==
    (Handles({"RNTO"}) /\ prev.Cmd # "RNFR")
    => /\ fscall' = NoFs
       /\ WireFinal(wire') = IF cmd.Msg = <<>> THEN 501 ELSE 503

C6_RNTOWithoutRNFRAmended == [][C6_AmendedStep]_vars

\* An RNTO with an argument, the command before it not an RNFR, was
\* answered 503 and renamed nothing.
C6_Witness ==
    /\ pc = "command"
    /\ ret.Cmd = "RNTO" /\ ret.Msg # <<>> /\ WireFinal(wire) = 503
    /\ fscall = NoFs

\* A step that ends the processing of a command other than RNFR, the
\* dispatcher going on to read the next command.
ProcessedOther ==
    pc \in {"handle", "transfer"} /\ pc' = "command" /\ cmd.Cmd # "RNFR"

\* C7 (as stated): Rename(old, new) is called only when the command right
\* before the RNTO was an RNFR that replied 350, with old the path that RNFR
\* resolved; after every processed command other than RNFR the rename source
\* is empty.
C7_Step ==
    /\ Renames
       => /\ pc = "handle" /\ cmd.Cmd = "RNTO"
          /\ prev.Cmd = "RNFR" /\ prev.code = 350
          /\ fscall'.a = Path(Dir, prev.Msg)
          /\ fscall'.b = Path(Dir, cmd.Msg)
    /\ ProcessedOther => renaming' = <<>>

C7_RenameOnlyAfterRNFR == [][C7_Step]_vars

\* C7 (amended): Rename(old, new) is called only when the command right
\* before the RNTO was an RNFR, with old the path resolved by the last RNFR
\* that replied 350, nothing but RNFR having been processed since; after
\* every processed command other than RNFR the rename source is empty.
C7_AmendedStep ==
    /\ Renames
       => /\ pc = "handle" /\ cmd.Cmd = "RNTO"
          /\ prev.Cmd = "RNFR"
          /\ prev.src # <<>>
          /\ fscall'.a = prev.src
          /\ fscall'.b = Path(Dir, cmd.Msg)
    /\ ProcessedOther => renaming' = <<>>

C7_RenameOnlyAfterRNFRAmended == [][C7_AmendedStep]_vars

\* RNFR /a answered 350, then RNTO b: Rename("/a", "/b") was called and the
\* rename source is empty again.
C7_Witness ==
    /\ pc = "command"
    /\ ret.Cmd = "RNTO" /\ WireFinal(wire) = 250
    /\ fscall = FsCall("Rename", <<"/", "a">>, <<"/", "b">>)
    /\ renaming = <<>>

\* C8 (step part): EPSV ALL answered 200 sets the flag; the flag is never
\* reset; while it is set PASV, PORT and EPRT reply 5xx and leave the data
\* endpoint as it is.
C8_Step ==
    /\ (Handles({"EPSV"}) /\ cmd.Msg = <<"ALL">>)
       => (WireFinal(wire') = 200 /\ EPSVOnly')
    /\ EPSVOnly => EPSVOnly'
    /\ (Handles({"PASV", "PORT", "EPRT"}) /\ EPSVOnly)
       => /\ WireFinal(wire') \in 500..599
          /\ Data' = Data
          /\ ~ \E i \in 1..Len(wire') : wire'[i].ev = "dclose"

\* C8 (state part): while the flag is set, EPSV with protocol 1 or 2 replies
\* 229 and installs a fresh passive endpoint whenever the listener opens and
\* its port can be told.
C8_EPSVStillWorks ==
    (pc = "handle" /\ EPSVOnly /\ cmd.Cmd = "EPSV" /\ link # "down"
       /\ cmd.Msg \in {<<"1">>, <<"2">>})
    => LET t == handleEPSV(Cur, cmd, TRUE, TRUE)
       IN  /\ FinalCode(t) = 229
           /\ t.Data = SetConnType(PassiveConn, Type)
           /\ t.EPSVOnly

\* C8: EPSV ALL is a latch on PASV, PORT and EPRT: once it has replied 200
\* they reply 5xx and set up no data endpoint, the flag is never reset, and
\* EPSV with a protocol argument still replies 229.
C8_EPSVAllLatch == []C8_EPSVStillWorks /\ [][C8_Step]_vars

\* EPSV ALL was given while an endpoint existed, and a PORT that parses was
\* then refused with 550.
C8_Witness ==
    /\ pc = "command" /\ EPSVOnly
    /\ ret.Cmd = "PORT" /\ ret.Msg = PortOK /\ WireFinal(wire) = 550
    /\ Data # NoData

\* C9: LIST, NLST, RETR and STOR with no data endpoint reply 425, write no
\* 150 and make no FileSystem call.
C9_Step ==
    (Handles(TransferVerbs) /\ Data = NoData)
    => /\ pc' = "command"
       /\ WireFinal(wire') = 425
       /\ ~ \E i \in 1..Len(wire') : wire'[i].ev = "reply" /\ wire'[i].n = 150
       /\ fscall' = NoFs
       /\ Data' = NoData

C9_NoDataConn == [][C9_Step]_vars

\* STOR without an endpoint was answered 425.
C9_Witness ==
    /\ pc = "command"
    /\ ret.Cmd = "STOR" /\ WireFinal(wire) = 425
    /\ Data = NoData /\ fscall = NoFs

\* Positions in the history of the current command.
At(ev) == { i \in 1..Len(wire) : wire[i].ev = ev }
Opening == { i \in 1..Len(wire) : wire[i].ev = "reply" /\ wire[i].n = 150 }
Finals(k) == { i \in 1..Len(wire) : i > k /\ IsFinal(wire[i]) }

\* C10: for a transfer that wrote its 150, the history of the command is the
\* 150, then the streaming, then the flush, then the close of the data
\* endpoint, then exactly one final reply, 226 or 550; no final reply is
\* written before the data endpoint is closed.
C10_TransferOrder ==
    \A k \in Opening :
        /\ ret.Cmd \in TransferVerbs
        /\ Cardinality(Opening) = 1
        /\ \A i \in At("stream") \cup At("flush") \cup At("dclose") : k < i
        /\ \A i \in At("stream") : \A j \in At("flush") \cup At("dclose") : i < j
        /\ \A i \in At("flush") : \A j \in At("dclose") : i < j
        /\ Cardinality(At("dclose")) <= 1
        /\ \A f \in Finals(k) :
              /\ wire[f].n \in {226, 550}
              /\ \E j \in At("dclose") : j < f
        /\ Cardinality(Finals(k)) <= 1
        /\ pc = "transfer" => At("dclose") = {} /\ Finals(k) = {}
        /\ (pc = "command" /\ link # "down")
           => Cardinality(At("dclose")) = 1 /\ Cardinality(Finals(k)) = 1

\* A RETR ran through: 150, streaming, flush, close, 226.
C10_Witness ==
    /\ pc = "command" /\ ret.Cmd = "RETR" /\ WireFinal(wire) = 226
    /\ \E k \in Opening : \E i \in At("stream") : \E j \in At("flush") :
       \E d \in At("dclose") : \E f \in Finals(k) :
          k < i /\ i < j /\ j < d /\ d < f

\* C12: when the handler has returned and the server has closed the session,
\* the control connection is closed and so is the session's data endpoint:
\* no listener is left open, no accept is outstanding, no stream is open.
C12_TeardownClosesData ==
    pc = "closed"
    => /\ conn = "nil"
       /\ Data.kind = "passive" => (Data.lclosed /\ Data.got # "none")
       /\ Data.active # "open"

\* C19 (step part): TYPE with L8 or I sets type I, with A or AN type A, on
\* the session and on the attached endpoint, and replies 200; with any other
\* argument it replies 504 and changes neither.
C19_Step ==
    Handles({"TYPE"})
    => IF cmd.Msg \in {<<"L8">>, <<"I">>, <<"A">>, <<"AN">>}
       THEN /\ Type' = IF cmd.Msg \in {<<"L8">>, <<"I">>} THEN "I" ELSE "A"
            /\ WireFinal(wire') = 200
            /\ Data # NoData => Data' = [Data EXCEPT !.typ = Type']
            /\ Data = NoData => Data' = NoData
       ELSE /\ WireFinal(wire') = 504
            /\ Type' = Type
            /\ Data' = Data

\* C19 (state part): an attached data endpoint has the session's type.
C19_SameType == Data # NoData => Data.typ = Type

\* C19: SetType maps L8 and I to I, A and AN to A, and sets the type on the
\* attached endpoint; for AT, AC, the E tokens and unknown tokens TYPE replies
\* 504 and both types stay; an attached endpoint always has the session's
\* type.
C19_SetType == []C19_SameType /\ [][C19_Step]_vars

\* TYPE AN was accepted while an endpoint was attached: both have type A.
C19_Witness ==
    /\ pc = "command"
    /\ ret = [Cmd |-> "TYPE", Msg |-> <<"AN">>]
    /\ WireFinal(wire) = 200
    /\ Type = "A" /\ Data # NoData /\ Data.typ = "A"

\* C20: in every state of a session the transfer type is I or A and the
\* transfer mode is S.
C20_TypeAndMode == Type \in {"I", "A"} /\ Mode \in {"S"}

\* MODE B was refused after the type had been switched to A.
C20_Witness ==
    /\ pc = "command"
    /\ ret = [Cmd |-> "MODE", Msg |-> <<"B">>]
    /\ WireFinal(wire) = 504
    /\ Type = "A" /\ Mode = "S"

\* The endpoint d has been set up by Passive or Active and Conn.Close has
\* not been called on it since.
Fresh(d) == d # NoData /\ ~d.closed

\* C35: a LIST, NLST, RETR or STOR that writes 150 has an endpoint that a
\* PASV, EPSV, PORT or EPRT has set up and that no transfer and no failed
\* PORT or EPRT has closed since; without one it is answered 425 and no 150
\* is written.
C35_Step ==
    (Handling(TransferVerbs) /\ pc' # "handle") =>
       LET opened == \E i \in DOMAIN wire' :
                        wire'[i].ev = "reply" /\ wire'[i].n = 150
       IN  /\ opened => Fresh(Data)
           /\ (~Fresh(Data) /\ link # "down")
                 => ~opened /\ WireFinal(wire') = 425

C35_SingleUse == [][C35_Step]_vars

----------------------------------------------------------------------------
(* auth.go: AuthHandler, and handler.go: FileHandler.Handle with its        *)
(* authorizer, PWD, CWD and CDUP                                            *)

\* Deepest directory of the file system the sessions are served from.
MaxDepth == 2

\* What Authorizer.Authorize can return.
AuthOutcomes == {"allow", "deny", "error"}

\* AuthHandler.authorize: without an Authorizer the user must be anonymous;
\* with one, out is what its Authorize returns.
authorize(a, user, out) ==
    IF a = "nil" THEN [ok |-> user = <<"anonymous">>, err |-> FALSE]
    ELSE [ok |-> out = "allow", err |-> out = "error"]

\* case "USER" that records the name whether there is an Authorizer or not.
authUSERRecordsAny(s, c, a) ==
    IF c.Msg = <<>> THEN Reply(s, 504, "A user name is required.")
    ELSE Reply([s EXCEPT !.User = c.Msg], 331, "Please specify the password.")

\* AuthHandler.handle, case "USER"; a is the Authorizer.
authUSER(s, c, a) ==
    IF c.Msg = <<>> THEN Reply(s, 504, "A user name is required.")
    ELSE IF a = "nil" /\ c.Msg # <<"anonymous">>
    THEN Reply(s, 331, "This server is anonymous only.")
    ELSE Reply([s EXCEPT !.User = c.Msg], 331, "Please specify the password.")

\* case "PASS" that keeps the user it has rejected.
authPASSKeepsUser(s, c, a, out) ==
    IF s.User = <<>> THEN Reply(s, 503, "Log in with USER first.")
    ELSE LET r == authorize(a, s.User, out) IN
         IF ~r.err /\ r.ok
         THEN Reply([s EXCEPT !.Password = c.Msg], 230, "Login successful.")
         ELSE IF r.err THEN [s EXCEPT !.User = <<>>, !.err = "auth"]
         ELSE Reply(s, 430, "Invalid user name or password.")

\* case "PASS" that answers 430 when Authorize returns an error, too.
authPASSRepliesOnError(s, c, a, out) ==
    IF s.User = <<>> THEN Reply(s, 503, "Log in with USER first.")
    ELSE LET r == authorize(a, s.User, out) IN
         IF ~r.err /\ r.ok
         THEN Reply([s EXCEPT !.Password = c.Msg], 230, "Login successful.")
         ELSE LET e == Reply([s EXCEPT !.User = <<>>],
                             430, "Invalid user name or password.")
              IN  IF r.err THEN [e EXCEPT !.err = "auth"] ELSE e

\* AuthHandler.handle, case "PASS"; out is what Authorize returns.
authPASS(s, c, a, out) ==
    IF s.User = <<>> THEN Reply(s, 503, "Log in with USER first.")
    ELSE LET r == authorize(a, s.User, out) IN
         IF ~r.err /\ r.ok
         THEN Reply([s EXCEPT !.Password = c.Msg], 230, "Login successful.")
         ELSE IF r.err THEN [s EXCEPT !.User = <<>>, !.err = "auth"]
         ELSE Reply([s EXCEPT !.User = <<>>],
                    430, "Invalid user name or password.")

\* AuthHandler.handle on the command c.
authhandle(s, c, a, out) ==
    CASE c.Cmd = "USER" -> authUSER(s, c, a)
      [] c.Cmd = "PASS" -> authPASS(s, c, a, out)
      [] c.Cmd = "QUIT" -> Reply(s, 211, "Goodbye.")
      [] OTHER -> Reply(s, 530, "Log in with USER and PASS.")

\* The Authorize call handle(c) makes on the session s and what it
\* returns, NoAuth for none.
authorizeCall(s, c, a, out) ==
    IF a = "set" /\ c.Cmd = "PASS" /\ s.User # <<>>
    THEN [user |-> s.User, pass |-> c.Msg, out |-> out]
    ELSE NoAuth

\* How deep the directory path names lies.
Depth(path) == Len(Resolve(Names(path), <<>>))

\* case "CWD" that sets the directory before it looks at Stat.
handleCWDEager(s, c, e, dir) ==
    IF c.Msg = <<>> THEN Reply(s, 550, "Failed to change directory.")
    ELSE LET path == Path(s.Dir, c.Msg)
             r == [s EXCEPT !.fscall = FsCall("Stat", path, <<>>),
                            !.Dir = path]
         IN  CASE e = "perm" -> Reply(r, 550, "Insufficient permissions.")
               [] e = "notexist" -> Reply(r, 550, "No such directory.")
               [] e # "nil" \/ ~dir ->
                    Reply(r, 550, "Failed to change directory.")
               [] OTHER -> Reply(r, 250, "Directory successfully changed.")

\* case "CWD"; e is the error of FileSystem.Stat and dir what IsDir says.
handleCWD(s, c, e, dir) ==
    IF c.Msg = <<>> THEN Reply(s, 550, "Failed to change directory.")
    ELSE LET path == Path(s.Dir, c.Msg)
             r == [s EXCEPT !.fscall = FsCall("Stat", path, <<>>)]
         IN  CASE e = "perm" -> Reply(r, 550, "Insufficient permissions.")
               [] e = "notexist" -> Reply(r, 550, "No such directory.")
               [] e # "nil" \/ ~dir ->
                    Reply(r, 550, "Failed to change directory.")
               [] OTHER -> Reply([r EXCEPT !.Dir = path],
                                 250, "Directory successfully changed.")

\* case "CDUP"
handleCDUP(s, e, dir) ==
    LET path == Path(s.Dir, <<"..">>)
        r == [s EXCEPT !.fscall = FsCall("Stat", path, <<>>)]
    IN  CASE e = "perm" -> Reply(r, 550, "Insufficient permissions.")
          [] e = "notexist" -> Reply(r, 550, "No such directory.")
          [] e # "nil" \/ ~dir -> Reply(r, 550, "Failed to change directory.")
          [] OTHER -> Reply([r EXCEPT !.Dir = path],
                            250, "Directory successfully changed.")

\* case "PWD"
handlePWD(s) == Reply(s, 200, Path(s.Dir, <<>>))

\* Lines the client sends to a handler with a login.
LoginLines ==
    { [verb |-> v, msg |-> <<>>] :
        v \in {"", "NOOP", "QUIT", "PWD", "CDUP", "PASV", "USER", "PASS"} }
    \cup { [verb |-> "USER", msg |-> m] : m \in {<<"anonymous">>, <<"foo">>} }
    \cup { [verb |-> "PASS", msg |-> <<"bar">>] }
    \cup { [verb |-> "CWD", msg |-> m] :
             m \in {<<>>, <<"a">>, <<"/", "a">>, <<"/", "a", "/", "..">>} }
    \cup { [verb |-> "RETR", msg |-> <<"a">>] }

\* A session handed to FileHandler.Handle with or without an Authorizer,
\* or to a handler that calls HandleAuth(s, nil) and then ServeFiles.
InitLogin ==
    /\ conn = "open"
    /\ cmd = NoCmd
    /\ greeted = FALSE
    /\ wire = <<>>
    /\ closes = 0
    /\ err = "nil"
    /\ ret = NoCmd
    /\ panicked = FALSE
    /\ link = "up"
    /\ calls = 0
    /\ call = NoCall
    /\ Data = NoData
    /\ EPSVOnly = FALSE
    /\ Dir = DefaultDir
    /\ renaming = <<>>
    /\ fscall = NoFs
    /\ prev = NoPrev
    /\ Type = DefaultType
    /\ Mode = DefaultMode
    /\ Old = {}
    /\ bytes = NoBytes
    /\ User = <<>>
    /\ Password = <<>>
    /\ Authorizer \in {"nil", "set"}
    /\ pc \in {"auth", "command"}
    /\ Authorizer = "set" => pc = "auth"
    /\ authcall = NoAuth
    /\ loggedIn = FALSE
    /\ file = NoFile
    /\ client = NoClient

\* c, err := s.Command() in AuthHandler.Handle
AuthCommand ==
    /\ Running /\ pc = "auth"
    /\ ReadFrom(LoginLines, "authhandle")
    /\ authcall' = NoAuth
    /\ UNCHANGED <<calls, call, prev, dvars, Authorizer, loggedIn, file,
                   client>>

\* AuthHandler.Handle that returns nil after every PASS.
AuthHandleLeavesOnPass ==
    /\ Running /\ pc = "authhandle"
    /\ \E out \in AuthOutcomes :
          LET t == authhandle(Cur, cmd, Authorizer, out) IN
          /\ Store(t)
          /\ pc' = IF t.err # "nil" THEN "returned"
                   ELSE IF cmd.Cmd \in {"PASS", "QUIT"}
                   THEN "command" ELSE "auth"
          /\ authcall' = authorizeCall(Cur, cmd, Authorizer, out)
          /\ loggedIn' = (loggedIn \/ FinalCode(t) = 230)
    /\ UNCHANGED <<calls, call, prev, dvars, Authorizer, file, client>>

\* AuthHandler.Handle that goes round after QUIT.
AuthHandleStaysOnQuit ==
    /\ Running /\ pc = "authhandle"
    /\ \E out \in AuthOutcomes :
          LET t == authhandle(Cur, cmd, Authorizer, out) IN
          /\ Store(t)
          /\ pc' = IF t.err # "nil" THEN "returned"
                   ELSE IF cmd.Cmd = "PASS" /\ t.User # <<>>
                   THEN "command" ELSE "auth"
          /\ authcall' = authorizeCall(Cur, cmd, Authorizer, out)
          /\ loggedIn' = (loggedIn \/ FinalCode(t) = 230)
    /\ UNCHANGED <<calls, call, prev, dvars, Authorizer, file, client>>

\* The rest of one iteration of AuthHandler.Handle: handle(c), then return on
\* an error, return nil after a PASS that left the user set and after QUIT,
\* so that the dispatcher starts, and go round otherwise.
AuthHandle ==
    /\ Running /\ pc = "authhandle"
    /\ \E out \in AuthOutcomes :
          LET t == authhandle(Cur, cmd, Authorizer, out) IN
          /\ Store(t)
          /\ pc' = IF t.err # "nil" THEN "returned"
                   ELSE IF (cmd.Cmd = "PASS" /\ t.User # <<>>)
                             \/ cmd.Cmd = "QUIT"
                   THEN "command" ELSE "auth"
          /\ authcall' = authorizeCall(Cur, cmd, Authorizer, out)
          /\ loggedIn' = (loggedIn \/ FinalCode(t) = 230)
    /\ UNCHANGED <<calls, call, prev, dvars, Authorizer, file, client>>

\* c, err := s.Command() in fileSession.Handle, from the same client.
DispatchCommand ==
    /\ Running /\ pc = "command"
    /\ ReadFrom(LoginLines, "handle")
    /\ authcall' = NoAuth
    /\ UNCHANGED <<calls, call, prev, dvars, Authorizer, loggedIn, file,
                   client>>

\* CWD on a file system with directories down to MaxDepth.
HandleCWD ==
    /\ Handling({"CWD"})
    /\ \E e \in FsErr, dir \in BOOLEAN :
          /\ (e = "nil" /\ dir) => Depth(Path(Dir, cmd.Msg)) <= MaxDepth
          /\ After(handleCWD(Cur, cmd, e, dir), cmd)

HandleCDUP ==
    /\ Handling({"CDUP"})
    /\ \E e \in FsErr, dir \in BOOLEAN : After(handleCDUP(Cur, e, dir), cmd)

HandlePWD ==
    /\ Handling({"PWD"})
    /\ After(handlePWD(Cur), cmd)

NextLogin ==
    \/ AuthCommand
    \/ AuthHandle
    \/ DispatchCommand
    \/ HandleFixed
    \/ HandleCWD
    \/ HandleCDUP
    \/ HandlePWD
    \/ HandlePASV
    \/ HandleTransfer
    \/ FinishTransfer
    \/ Accept
    \/ AcceptFail
    \/ Listen
    \/ ServerClose
    \/ Drop

SpecLogin == InitLogin /\ [][NextLogin]_vars

----------------------------------------------------------------------------
(* conn.go: the bytes Conn.Write hands to the buffered writer               *)

\* Longest payload written.
MaxLen == 6

\* The bytes of a payload: CR, LF and one other.
Octets == {"a", "\r", "\n"}

Payloads == UNION { [1..n -> Octets] : n \in 0..MaxLen }

RECURSIVE writeASCII(_, _, _)
\* Conn.writeASCII from c.cr = cr on the bytes b, byte by byte; room is how
\* many bytes the writer takes before WriteByte returns an error.  The result
\* is the bytes handed over, the count n returned, c.cr afterwards, and
\* whether an error was returned.
writeASCII(cr, b, room) ==
    IF b = <<>> THEN [out |-> <<>>, n |-> 0, cr |-> cr, failed |-> FALSE]
    ELSE LET x == Head(b)
             lf == ~cr /\ x = "\n"
             pre == IF lf THEN <<"\r">> ELSE <<>>
             cr1 == IF lf THEN cr ELSE x = "\r"
             room1 == room - Len(pre)
         IN  IF lf /\ room = 0
             THEN [out |-> <<>>, n |-> 0, cr |-> cr, failed |-> TRUE]
             ELSE IF room1 = 0
             THEN [out |-> pre, n |-> 0, cr |-> cr1, failed |-> TRUE]
             ELSE LET r == writeASCII(cr1, Tail(b), room1 - 1)
                  IN  [out |-> pre \o <<x>> \o r.out, n |-> r.n + 1,
                       cr |-> r.cr, failed |-> r.failed]

\* bufio.Writer.Write of b when the writer takes room bytes.
writeBinary(cr, b, room) ==
    IF Len(b) <= room
    THEN [out |-> b, n |-> Len(b), cr |-> cr, failed |-> FALSE]
    ELSE [out |-> SubSeq(b, 1, room), n |-> room, cr |-> cr, failed |-> TRUE]

\* Conn.Write that starts every call with c.cr unset.
WriteForgetsCR(d, b, room) ==
    IF d.typ = "A" THEN writeASCII(FALSE, b, room)
    ELSE writeBinary(d.cr, b, room)

\* Conn.Write on an endpoint with a stream: by type, writeASCII or the
\* writer's own Write.
Write(d, b, room) ==
    IF d.typ = "A" THEN writeASCII(d.cr, b, room)
    ELSE writeBinary(d.cr, b, room)

\* A session with an active endpoint of type I or A and a payload to send.
InitAscii ==
    /\ conn = "open"
    /\ cmd = NoCmd
    /\ greeted = FALSE
    /\ wire = <<>>
    /\ closes = 0
    /\ err = "nil"
    /\ ret = NoCmd
    /\ panicked = FALSE
    /\ link = "up"
    /\ calls = 0
    /\ call = NoCall
    /\ Type \in {"I", "A"}
    /\ Data = SetConnType(ActiveConn, Type)
    /\ EPSVOnly = FALSE
    /\ Dir = DefaultDir
    /\ renaming = <<>>
    /\ fscall = NoFs
    /\ pc = "idle"
    /\ prev = NoPrev
    /\ Mode = DefaultMode
    /\ Old = {}
    /\ User = <<>>
    /\ Password = <<>>
    /\ Authorizer = "nil"
    /\ authcall = NoAuth
    /\ loggedIn = FALSE
    /\ file = NoFile
    /\ client = NoClient
    /\ \E p \in Payloads : bytes = [NoBytes EXCEPT !.payload = p, !.rest = p]

\* What one call of Write with the first k bytes left leaves behind.
Written(k, room) ==
    LET r == Write(Data, SubSeq(bytes.rest, 1, k), room) IN
    /\ Data' = [Data EXCEPT !.cr = r.cr, !.buffered = TRUE]
    /\ bytes' = [bytes EXCEPT !.rest = SubSeq(@, k + 1, Len(@)),
                              !.out = @ \o r.out,
                              !.n = r.n]
    /\ err' = IF r.failed THEN "io" ELSE "nil"
    /\ pc' = IF r.failed THEN "failed" ELSE "idle"
    /\ call' = [op |-> "Write", code |-> 0]
    /\ UNCHANGED <<conn, cmd, greeted, wire, closes, ret, panicked, link,
                   calls, EPSVOnly, Dir, renaming, fscall, prev, Type, Mode,
                   Old, User, Password, xvars>>

\* The caller writes the next k bytes of the payload and the writer takes
\* them all.
WriteChunk ==
    /\ pc = "idle"
    /\ \E k \in 1..Len(bytes.rest) : Written(k, 2 * k + 1)

\* The same, but the writer fails after room bytes: its stream has failed
\* and so does every later Write.
WriteFails ==
    /\ pc = "idle"
    /\ \E k \in 1..Len(bytes.rest) : \E room \in 0..(k - 1) : Written(k, room)

NextAscii == WriteChunk \/ WriteFails

SpecAscii == InitAscii /\ [][NextAscii]_vars

----------------------------------------------------------------------------
(* handler.go: store and retrieve with the bytes they copy                 *)

\* Longest payload a client stores.
MaxStore == 2

StorePayloads == UNION { [1..n -> Octets] : n \in 0..MaxStore }

\* The path of the one file the filesystem may hold.
StorePath == <<"/", "a">>

\* Lines the client sends around a STOR and a RETR.
StoreLines ==
    { [verb |-> v, msg |-> <<>>] : v \in {"NOOP", "QUIT", "PASV"} }
    \cup { [verb |-> "TYPE", msg |-> <<m>>] : m \in {"I", "A"} }
    \cup { [verb |-> "PORT", msg |-> PortOK] }
    \cup { [verb |-> v, msg |-> StorePath] : v \in {"STOR", "RETR"} }
    \cup { [verb |-> "RETR", msg |-> <<"b">>] }

\* What s.Create (STOR) and s.Open (RETR) can return while the file is f:
\* Create makes or truncates the file unless it fails; Open finds the file
\* only at StorePath and only when it exists.
OpenReturns(s, c, f) ==
    IF c.Cmd = "STOR" THEN {"nil", "perm", "other"}
    ELSE IF Path(s.Dir, c.Msg) = StorePath /\ f # NoFile THEN {"nil", "perm"}
    ELSE {"notexist", "perm"}

\* The end of one iteration of fileSession.Handle, as After, for a command
\* that changes the file or the bytes on the data connection.
Loop(t, c) ==
    /\ Store(IF t.err = "nil" /\ c.Cmd \notin {"QUIT", "RNFR"}
             THEN [t EXCEPT !.renaming = <<>>] ELSE t)
    /\ pc' = IF t.err # "nil" \/ c.Cmd = "QUIT" THEN "returned" ELSE "command"
    /\ prev' = Processed(t, c)

\* store that copies from the file to the data endpoint: the file just
\* created has nothing to give and nothing is put into it.
storeCopyToData(s, p, k, ok) == <<>>

\* io.Copy(file, s.Data) in store, on the file Create has just made: the
\* client has written p on the data connection and closed it.  The file
\* gets all of p when every Read succeeds, nothing when the accept had
\* failed, and the first k bytes when a Read fails after them.
storeCopy(s, p, k, ok) ==
    LET r == ConnRead(s, ok) IN
    IF r.err = "nil" THEN p
    ELSE IF r.err = "accept" THEN <<>>
    ELSE SubSeq(p, 1, k)

\* io.Copy(s.Data, file) in retrieve: the bytes Conn.Write hands to the
\* buffered writer of the endpoint for the file contents f, e being the
\* error of reading the file and room what the writer takes.
retrieveCopy(s, f, e, room) ==
    IF e # "nil" \/ f = <<>> \/ s.Data.aerr THEN <<>>
    ELSE Write(s.Data, f, room).out

\* Conn.Close whose Flush returns an error: Close drops the error, so the
\* session is left as by a Close that flushed, but the bytes were not
\* written out.
ConnFlushFails(t) ==
    [t EXCEPT !.wire = [i \in DOMAIN @ |->
                           IF @[i].ev = "flush" THEN Ev("flush", 0, "err")
                           ELSE @[i]]]

InitStore == Init

\* c, err := s.Command() in fileSession.Handle
StoreCommand ==
    /\ Running /\ pc = "command"
    /\ ReadFrom(StoreLines, "handle")
    /\ UNCHANGED <<calls, call, prev, dvars, xvars>>

\* retrieve and store up to the 150 reply, or to the final reply when the
\* transfer does not start.  Create leaves an empty file.
StoreBegin ==
    /\ Handling({"STOR", "RETR"})
    /\ \E e \in OpenReturns(Cur, cmd, file) :
          LET t == beginTransfer(Cur, cmd, e) IN
          /\ file' = IF cmd.Cmd = "STOR" /\ Data # NoData /\ e = "nil"
                     THEN <<>> ELSE file
          /\ bytes' = IF cmd.Cmd = "STOR" THEN NoBytes
                      ELSE [bytes EXCEPT !.out = <<>>]
          /\ IF t.err = "nil"
             THEN Store(t) /\ pc' = "transfer" /\ prev' = prev
             ELSE Loop(replyTransfer(t, cmd), cmd)
    /\ UNCHANGED <<calls, call, Old, Authorizer, authcall, loggedIn, client>>

\* store from the copy to the final reply: the client writes p on the data
\* connection and closes it.
StoreFinish ==
    /\ Running /\ pc = "transfer" /\ cmd.Cmd = "STOR"
    /\ Ready(Data)
    /\ \E p \in StorePayloads, ok \in BOOLEAN, e \in {"nil", "other"} :
       \E k \in IF ok THEN {Len(p)} ELSE 0..Len(p) :
          /\ file' = storeCopy(Cur, p, k, ok)
          /\ bytes' = [NoBytes EXCEPT !.payload = p]
          /\ Loop(replyTransfer(endTransfer(Cur, cmd, e, FALSE, ok), cmd), cmd)
    /\ UNCHANGED <<calls, call, Old, Authorizer, authcall, loggedIn, client>>

\* retrieve from the copy to the final reply.  fok is whether the Flush in
\* Conn.Close writes the buffered bytes out; when it does not, the client
\* gets the first j of them.
RetrieveFinish ==
    /\ Running /\ pc = "transfer" /\ cmd.Cmd = "RETR"
    /\ \E e \in {"nil", "other"}, room \in 0..(2 * Len(file)),
          fok \in BOOLEAN :
          LET handed == retrieveCopy(Cur, file, e, room)
              failed == Write(Data, file, room).failed
              t == endTransfer(Cur, cmd, e, file = <<>>, ~failed)
          IN  /\ Ready(Data) \/ e # "nil" \/ file = <<>>
              /\ ~fok => handed # <<>>
              /\ \E j \in IF fok THEN {Len(handed)} ELSE 0..(Len(handed) - 1) :
                    bytes' = [bytes EXCEPT !.out = SubSeq(handed, 1, j)]
              /\ Loop(replyTransfer(IF fok THEN t ELSE ConnFlushFails(t), cmd),
                      cmd)
    /\ UNCHANGED <<calls, call, Old, Authorizer, authcall, loggedIn, client,
                   file>>

NextStore ==
    \/ StoreCommand
    \/ HandleFixed
    \/ HandleTYPE
    \/ HandlePORT
    \/ HandlePASV
    \/ StoreBegin
    \/ StoreFinish
    \/ RetrieveFinish
    \/ Accept
    \/ AcceptFail
    \/ Listen
    \/ ServerClose
    \/ Drop

SpecStore == InitStore /\ [][NextStore]_vars

----------------------------------------------------------------------------
(* client.go: the data channel of the Client and its clientFile            *)

\* Most calls made on one clientFile.
MaxFileCalls == 3

\* One thing a call does on the control connection or for the data
\* channel: c is a command sent (r the code of the final reply to it, 0 for
\* an error of the exchange; for a transfer command, which is only sent, 1
\* for sent and 0 for an error), "listen" or "dial" (r = 1 for success),
\* "conn" (data returns an endpoint), "read" or "write" on the endpoint
\* (0 an error, 1 bytes, 2 the end of the data), "dclose" (Conn.Close, 1
\* for nil) or "reply" (a reply read by finish, 0 for an error).
CEv(c, r) == [c |-> c, r |-> r]

\* Reply.Preliminary, Reply.Success
Preliminary(n) == n >= 100 /\ n < 200
Success(n) == n >= 200 /\ n < 300

\* Final replies a server gives to EPSV, to PASV, to EPRT and PORT, to
\* REST, and at the end of a transfer; 0 stands for an error of the
\* control connection.
EpsvReplies == {0, 229, 500}
PasvReplies == {0, 227, 500}
PortReplies == {0, 200, 500}
RestReplies == {0, 200, 350, 500}
Terminals == {0, 226, 550}

\* What passive, active and data return: the endpoint (conn: "nil" for
\* none) or the error, with what was done on the way.
Failed(trace, e) == [trace |-> trace, conn |-> "nil", err |-> e]
Got(trace, c) == [trace |-> trace, conn |-> c, err |-> "nil"]

\* Client.passive from the port on: pok is whether the reply parses, dok
\* whether the dial succeeds.
dial(trace, pok, dok) ==
    IF ~pok THEN Failed(trace, "syntax")
    ELSE IF ~dok THEN Failed(Append(trace, CEv("dial", 0)), "dial")
    ELSE Got(Append(trace, CEv("dial", 1)), "dialed")

\* Client.passive: EPSV, PASV unless EPSV was answered 229, then the dial.
passive(epsv, pasv, pok, dok) ==
    LET e == <<CEv("EPSV", epsv)>>
        p == Append(e, CEv("PASV", pasv))
    IN  IF epsv = 0 THEN Failed(e, "io")
        ELSE IF epsv = 229 THEN dial(e, pok, dok)
        ELSE IF pasv = 0 THEN Failed(p, "io")
        ELSE IF Success(pasv) THEN dial(p, pok, dok)
        ELSE Failed(p, "cannot connect")

\* Client.active: listen, EPRT, PORT.  The endpoint is "accepting" when the
\* server has been told the address with success and "listening" when it
\* has not, so that nothing will ever connect.
active(lok, eprt, port) ==
    LET l == <<CEv("listen", 1), CEv("EPRT", eprt)>>
        q == Append(l, CEv("PORT", port))
    IN  IF ~lok THEN Failed(<<CEv("listen", 0)>>, "listen")
        ELSE IF eprt = 0 THEN Failed(l, "io")
        ELSE IF ~Success(eprt) THEN Got(l, "listening")
        ELSE IF port = 0 THEN Failed(q, "io")
        ELSE IF ~Success(port) THEN Got(q, "accepting")
        ELSE Failed(q, "cannot connect")

\* Client.data: passive, and active when passive returned an error.
data(epsv, pasv, pok, dok, lok, eprt, port) ==
    LET p == passive(epsv, pasv, pok, dok)
        a == active(lok, eprt, port)
        r == IF p.err # "nil" THEN [a EXCEPT !.trace = p.trace \o @] ELSE p
    IN  IF r.err = "nil" THEN [r EXCEPT !.trace = Append(@, CEv("conn", 1))]
        ELSE r

\* Every way data can go.
DataRuns ==
    { data(epsv, pasv, pok, dok, lok, eprt, port) :
        epsv \in EpsvReplies, pasv \in PasvReplies, pok \in BOOLEAN,
        dok \in BOOLEAN, lok \in BOOLEAN, eprt \in PortReplies,
        port \in PortReplies }

\* A clientFile as Open and Create return it: no endpoint, not closed, no
\* offset.  xfers counts the transfer commands it has sent, calls the calls
\* made on it, log is what the last call did, op and res are that call and
\* what it returned.
NewFile(op) ==
    [conn |-> "nil", closed |-> FALSE, seek |-> 0, xfers |-> 0, calls |-> 0,
     log |-> <<>>, op |-> op, res |-> "nil"]

\* clientFile.Seek; the call is logged as CEv(whence, offset).
fileSeek(f, whence, offset) ==
    LET g == [f EXCEPT !.log = Append(@, CEv(whence, offset))] IN
    IF whence # "start" \/ f.conn # "nil" THEN [g EXCEPT !.res = "cannot seek"]
    ELSE [g EXCEPT !.seek = offset, !.res = "nil"]

\* clientFile.start: d is how data goes, rest the reply to REST, sent
\* whether the transfer command is written out.
start(f, verb, seek, d, rest, sent) ==
    LET g == [f EXCEPT !.log = @ \o d.trace]
        r == [g EXCEPT !.log = @ \o <<CEv("REST", rest), CEv("dclose", 1)>>]
        h == IF seek /\ f.seek # 0
             THEN [g EXCEPT !.log = Append(@, CEv("REST", rest))] ELSE g
    IN  IF f.closed THEN [f EXCEPT !.res = "closed"]
        ELSE IF f.conn # "nil" THEN [f EXCEPT !.res = "nil"]
        ELSE IF d.err # "nil" THEN [g EXCEPT !.res = d.err]
        ELSE IF seek /\ f.seek # 0 /\ rest = 0 THEN [r EXCEPT !.res = "io"]
        ELSE IF seek /\ f.seek # 0 /\ ~Success(rest)
        THEN [r EXCEPT !.res = "could not seek"]
        ELSE [h EXCEPT !.conn = d.conn,
                       !.log = Append(@, CEv(verb, IF sent THEN 1 ELSE 0)),
                       !.xfers = @ + 1,
                       !.res = IF sent THEN "nil" ELSE "io"]

\* The replies finish reads: np preliminary ones, then term.
Replies(np, term) == [i \in 1..np |-> CEv("reply", 150)] \o <<CEv("reply", term)>>

\* What finish returns after the reply term.
Outcome(term) ==
    IF term = 0 THEN "io"
    ELSE IF Success(term) THEN "nil"
    ELSE "transfer failed"

\* finish that reads the replies before it closes the data endpoint.
finishRepliesFirst(f, cok, np, term) ==
    IF Outcome(term) # "nil"
    THEN [f EXCEPT !.log = @ \o Replies(np, term), !.res = Outcome(term)]
    ELSE IF ~cok
    THEN [f EXCEPT !.log = @ \o Replies(np, term) \o <<CEv("dclose", 0)>>,
                   !.res = "io"]
    ELSE [f EXCEPT !.conn = "nil",
                   !.log = @ \o Replies(np, term) \o <<CEv("dclose", 1)>>,
                   !.res = "nil"]

\* clientFile.finish: cok is whether f.conn.Close returns nil; then the
\* replies are read up to the first that is not preliminary.
finish(f, cok, np, term) ==
    IF ~cok THEN [f EXCEPT !.log = Append(@, CEv("dclose", 0)), !.res = "io"]
    ELSE [f EXCEPT !.conn = "nil",
                   !.log = @ \o <<CEv("dclose", 1)>> \o Replies(np, term),
                   !.res = Outcome(term)]

\* A Read or Write on an endpoint nothing will connect to does not return.
Blocked(f) == [f EXCEPT !.res = "blocked"]

\* clientFile.Read: io is what f.conn.Read gives, 2 for io.EOF.
fileRead(f, d, rest, sent, io, cok, np, term) ==
    LET s == start(f, "RETR", TRUE, d, rest, sent)
        r == [s EXCEPT !.log = Append(@, CEv("read", io))]
        t == finish(r, cok, np, term)
    IN  IF s.res # "nil" THEN s
        ELSE IF s.conn = "listening" THEN Blocked(s)
        ELSE IF io # 2 THEN [r EXCEPT !.res = IF io = 1 THEN "nil" ELSE "io"]
        ELSE IF t.res # "nil" THEN t
        ELSE [t EXCEPT !.res = "eof"]

\* clientFile.Write: io is what f.conn.Write gives.
fileWrite(f, d, rest, sent, io) ==
    LET s == start(f, "STOR", TRUE, d, rest, sent) IN
    IF s.res # "nil" THEN s
    ELSE IF s.conn = "listening" THEN Blocked(s)
    ELSE [s EXCEPT !.log = Append(@, CEv("write", io)),
                   !.res = IF io = 1 THEN "nil" ELSE "io"]

\* clientFile.Readdir: readdir reads lines to the end of the data or to an
\* error, which it does not return; then finish.
fileReaddir(f, d, sent, io, cok, np, term) ==
    LET s == start(f, "NLST", FALSE, d, 0, sent) IN
    IF s.res # "nil" THEN s
    ELSE IF s.conn = "listening" THEN Blocked(s)
    ELSE finish([s EXCEPT !.log = Append(@, CEv("read", io))], cok, np, term)

\* clientFile.Close
fileClose(f, cok, np, term) ==
    IF f.closed THEN [f EXCEPT !.res = "already closed"]
    ELSE IF f.conn = "nil" THEN [f EXCEPT !.closed = TRUE, !.res = "nil"]
    ELSE finish([f EXCEPT !.closed = TRUE], cok, np, term)

\* A connected Client that has opened no file.
InitClient ==
    /\ conn = "open"
    /\ cmd = NoCmd
    /\ greeted = FALSE
    /\ wire = <<>>
    /\ closes = 0
    /\ err = "nil"
    /\ ret = NoCmd
    /\ panicked = FALSE
    /\ link = "up"
    /\ calls = 0
    /\ call = NoCall
    /\ Data = NoData
    /\ EPSVOnly = FALSE
    /\ Dir = DefaultDir
    /\ renaming = <<>>
    /\ fscall = NoFs
    /\ pc = "idle"
    /\ prev = NoPrev
    /\ Type = DefaultType
    /\ Mode = DefaultMode
    /\ Old = {}
    /\ User = <<>>
    /\ Password = <<>>
    /\ Authorizer = "nil"
    /\ authcall = NoAuth
    /\ loggedIn = FALSE
    /\ file = NoFile
    /\ bytes = NoBytes
    /\ client = NewFile("none")

\* The call op on the clientFile returns and leaves it as f.
FileCalled(op, f) ==
    /\ client' = [f EXCEPT !.op = op, !.calls = client.calls + 1]
    /\ UNCHANGED <<conn, cmd, greeted, wire, closes, err, ret, panicked, link,
                   Data, EPSVOnly, Dir, renaming, fscall, calls, call, pc, prev,
                   Type, Mode, User, Password, dvars, Authorizer, authcall,
                   loggedIn, file>>

\* A file has been opened, the last call on it has returned, and the bound
\* on the calls is not reached.
CanCallFile ==
    /\ client.op # "none" /\ client.res # "blocked"
    /\ client.calls < MaxFileCalls

\* The clientFile at the start of a call.
AtFileCall == [client EXCEPT !.log = <<>>]

\* The choices a call that reaches data, REST or finish depends on; one
\* value where the call does not get there.
DataFor(f) == IF f.closed \/ f.conn # "nil" THEN {Failed(<<>>, "nil")}
              ELSE DataRuns
RestFor(f, d) == IF f.closed \/ f.conn # "nil" \/ d.err # "nil" \/ f.seek = 0
                 THEN {200} ELSE RestReplies
SentFor(f, d) == IF f.closed \/ f.conn # "nil" \/ d.err # "nil"
                 THEN {TRUE} ELSE BOOLEAN
Goes(s) == s.res = "nil" /\ s.conn # "listening"
ClosesFor(b) == IF b THEN BOOLEAN ELSE {TRUE}
PrelimsFor(b) == IF b THEN 0..1 ELSE {0}
TerminalsFor(b) == IF b THEN Terminals ELSE {226}

\* Client.Open
ClientOpen ==
    /\ client.res # "blocked"
    /\ client' = NewFile("Open")
    /\ UNCHANGED <<conn, cmd, greeted, wire, closes, err, ret, panicked, link,
                   Data, EPSVOnly, Dir, renaming, fscall, calls, call, pc, prev,
                   Type, Mode, User, Password, dvars, Authorizer, authcall,
                   loggedIn, file>>

\* Client.Create
ClientCreate ==
    /\ client.res # "blocked"
    /\ client' = NewFile("Create")
    /\ UNCHANGED <<conn, cmd, greeted, wire, closes, err, ret, panicked, link,
                   Data, EPSVOnly, Dir, renaming, fscall, calls, call, pc, prev,
                   Type, Mode, User, Password, dvars, Authorizer, authcall,
                   loggedIn, file>>

ClientSeek ==
    /\ CanCallFile
    /\ \E whence \in {"start", "current", "end"}, offset \in 0..1 :
          FileCalled("Seek", fileSeek(AtFileCall, whence, offset))

ClientRead ==
    /\ CanCallFile
    /\ \E d \in DataFor(client) :
       \E rest \in RestFor(client, d), sent \in SentFor(client, d) :
       \E io \in IF Goes(start(AtFileCall, "RETR", TRUE, d, rest, sent))
                 THEN 0..2 ELSE {1} :
       \E cok \in ClosesFor(io = 2), np \in PrelimsFor(io = 2),
          term \in TerminalsFor(io = 2) :
          FileCalled("Read",
                     fileRead(AtFileCall, d, rest, sent, io, cok, np, term))

ClientWrite ==
    /\ CanCallFile
    /\ \E d \in DataFor(client) :
       \E rest \in RestFor(client, d), sent \in SentFor(client, d) :
       \E io \in IF Goes(start(AtFileCall, "STOR", TRUE, d, rest, sent))
                 THEN 0..1 ELSE {1} :
          FileCalled("Write", fileWrite(AtFileCall, d, rest, sent, io))

ClientReaddir ==
    /\ CanCallFile
    /\ \E d \in DataFor(client) :
       \E sent \in SentFor(client, d) :
       LET go == Goes(start(AtFileCall, "NLST", FALSE, d, 0, sent)) IN
       \E io \in IF go THEN {0, 2} ELSE {2} :
       \E cok \in ClosesFor(go), np \in PrelimsFor(go),
          term \in TerminalsFor(go) :
          FileCalled("Readdir",
                     fileReaddir(AtFileCall, d, sent, io, cok, np, term))

ClientClose ==
    /\ CanCallFile
    /\ \E cok \in ClosesFor(client.conn # "nil"),
          np \in PrelimsFor(client.conn # "nil"),
          term \in TerminalsFor(client.conn # "nil") :
          FileCalled("Close", fileClose(AtFileCall, cok, np, term))

NextClient ==
    \/ ClientOpen
    \/ ClientCreate
    \/ ClientSeek
    \/ ClientRead
    \/ ClientWrite
    \/ ClientReaddir
    \/ ClientClose

SpecClient == InitClient /\ [][NextClient]_vars

----------------------------------------------------------------------------
(* client.go against handler.go: a Read at an offset, served by the        *)
(* dispatcher                                                              *)

\* A clientFile from Open with Seek(k, io.SeekStart) done and a Read under
\* way: op is the command the Read has sent and not yet got the reply to
\* ("idle" for none), log the commands answered so far with the codes of
\* their replies.
SeekFile(k) ==
    [NewFile("idle") EXCEPT !.seek = k, !.res = "reading"]

\* The command the Read sends next, as start and passive go: EPSV, PASV
\* when EPSV was not answered 229, REST when an offset is recorded, RETR;
\* "" when there is none to send.
nextVerb(f) ==
    LET L == f.log
        last == L[Len(L)]
        go == IF f.seek # 0 THEN "REST" ELSE "RETR"
    IN  IF f.res # "reading" THEN ""
        ELSE IF L = <<>> THEN "EPSV"
        ELSE IF last.c = "EPSV" THEN (IF last.r = 229 THEN go ELSE "PASV")
        ELSE IF last.c = "PASV" THEN go
        ELSE IF last.c = "REST" THEN "RETR"
        ELSE ""

\* The line for the command v of a Read of StorePath at the offset k.
lineOf(v, k) ==
    [verb |-> v,
     msg |-> CASE v = "REST" -> <<ToString(k)>>
               [] v = "RETR" -> StorePath
               [] OTHER -> <<>>]

\* The clientFile once the reply n to its command has been read: passive
\* gives up on a refused PASV (the Read goes on in active mode, which is
\* not followed here), start on a refused REST, and finish ends the Read
\* after RETR.
replied(f, n) ==
    LET g == [f EXCEPT !.op = "idle", !.log = Append(@, CEv(f.op, n))] IN
    CASE f.op \in {"EPSV", "PASV"} /\ n = 0 -> [g EXCEPT !.res = "active"]
      [] f.op = "EPSV" -> IF n = 229 THEN [g EXCEPT !.conn = "dialed"] ELSE g
      [] f.op = "PASV" -> IF Success(n) THEN [g EXCEPT !.conn = "dialed"]
                          ELSE [g EXCEPT !.res = "active"]
      [] f.op = "REST" -> IF n = 0 THEN [g EXCEPT !.conn = "nil", !.res = "io"]
                          ELSE IF ~Success(n)
                          THEN [g EXCEPT !.conn = "nil",
                                         !.res = "could not seek"]
                          ELSE g
      [] OTHER -> [g EXCEPT !.conn = "nil", !.xfers = @ + 1,
                            !.res = IF Outcome(n) = "nil" THEN "eof"
                                    ELSE Outcome(n)]

\* A session in the dispatcher, a file at StorePath, and a client that has
\* opened it and recorded an offset.
InitSeek ==
    /\ conn = "open"
    /\ cmd = NoCmd
    /\ greeted = FALSE
    /\ wire = <<>>
    /\ closes = 0
    /\ err = "nil"
    /\ ret = NoCmd
    /\ panicked = FALSE
    /\ link = "up"
    /\ calls = 0
    /\ call = NoCall
    /\ Data = NoData
    /\ EPSVOnly = FALSE
    /\ Dir = DefaultDir
    /\ renaming = <<>>
    /\ fscall = NoFs
    /\ pc = "command"
    /\ prev = NoPrev
    /\ Type = DefaultType
    /\ Mode = DefaultMode
    /\ Old = {}
    /\ User = <<>>
    /\ Password = <<>>
    /\ Authorizer = "nil"
    /\ authcall = NoAuth
    /\ loggedIn = FALSE
    /\ bytes = NoBytes
    /\ file \in StorePayloads
    /\ \E k \in 0..MaxStore : client = SeekFile(k)

\* The Read sends its next command and the dispatcher reads it.
SeekCommand ==
    /\ Running /\ pc = "command"
    /\ client.op = "idle" /\ nextVerb(client) # ""
    /\ ReadFrom({lineOf(nextVerb(client), client.seek)}, "handle")
    /\ client' = [client EXCEPT !.op = nextVerb(client)]
    /\ UNCHANGED <<calls, call, prev, dvars, Authorizer, authcall, loggedIn,
                   file>>

\* The Read gets the final reply to the command it has sent.
SeekReply ==
    /\ Running /\ pc \in {"command", "returned"}
    /\ client.op # "idle"
    /\ client' = replied(client, WireFinal(wire))
    /\ UNCHANGED <<conn, cmd, greeted, wire, closes, err, ret, panicked, link,
                   Data, EPSVOnly, Dir, renaming, fscall, calls, call, pc, prev,
                   Type, Mode, User, Password, dvars, Authorizer, authcall,
                   loggedIn, file>>

NextSeek ==
    \/ SeekCommand
    \/ SeekReply
    \/ HandleFixed
    \/ HandleEPSV
    \/ HandlePASV
    \/ StoreBegin
    \/ RetrieveFinish
    \/ Accept
    \/ AcceptFail
    \/ Listen

SpecSeek == InitSeek /\ [][NextSeek]_vars

----------------------------------------------------------------------------
(* list.go: the Lister                                                     *)

\* Most entries in a directory listed.
MaxEntries == 2

\* Names of directory entries.
EntryNames == {"a", "b", "c"}

\* What Readdir(0) can return: up to MaxEntries entries with different
\* names, in the order the directory is read.
Listings ==
    { d \in UNION { [1..n -> EntryNames] : n \in 0..MaxEntries } :
        \A i, j \in DOMAIN d : d[i] = d[j] => i = j }

\* The lines of a listing: fmt.Fprintln(w, "total", n), of listLine(fi) and
\* of fi.Name().
TotalLine(n) == [k |-> "total", n |-> n, name |-> ""]
EntryLine(x) == [k |-> "entry", n |-> 0, name |-> x]
NameLine(x) == [k |-> "name", n |-> 0, name |-> x]

\* A Lister over a directory just opened: Cmd, the entries Readdir(0) will
\* return (none once it has returned them), and buf, which is nil or holds
\* lines.
NewLister(c, d) ==
    [Cmd |-> c, dir |-> d, buf |-> [nil |-> TRUE, data |-> <<>>]]

\* Lister.writeLine
writeLine(l, x) == IF l.Cmd = "NLST" THEN NameLine(x) ELSE EntryLine(x)

\* What a writer that takes room lines gets of the lines a, and whether it
\* returned an error.
Taken(a, room) ==
    [out |-> SubSeq(a, 1, IF room < Len(a) THEN room ELSE Len(a)),
     failed |-> room < Len(a)]

\* Lister.WriteTo that writes the total line for NLST as well.
WriteToTotalAlways(l, rerr, room) ==
    LET all == <<TotalLine(Len(l.dir))>> \o
               [i \in 1..Len(l.dir) |-> writeLine(l, l.dir[i])]
        t == Taken(all, room)
    IN  IF rerr THEN [l |-> l, out |-> <<>>, failed |-> TRUE]
        ELSE [l |-> [l EXCEPT !.dir = <<>>], out |-> t.out, failed |-> t.failed]

\* Lister.WriteTo to a writer that takes room lines; rerr is whether
\* Readdir returns an error.  With a buffer set, the buffer is written out
\* and drained; else the directory is read and the lines are written.
WriteTo(l, rerr, room) ==
    LET all == (IF l.Cmd # "NLST" THEN <<TotalLine(Len(l.dir))>> ELSE <<>>) \o
               [i \in 1..Len(l.dir) |-> writeLine(l, l.dir[i])]
        b == Taken(l.buf.data, room)
        t == Taken(all, room)
    IN  IF ~l.buf.nil
        THEN [l |-> [l EXCEPT !.buf.data = SubSeq(@, Len(b.out) + 1, Len(@))],
              out |-> b.out, failed |-> b.failed]
        ELSE IF rerr THEN [l |-> l, out |-> <<>>, failed |-> TRUE]
        ELSE [l |-> [l EXCEPT !.dir = <<>>], out |-> t.out, failed |-> t.failed]

\* Lister.Read of at most n lines: the first Read sets the buffer and calls
\* WriteTo on it, which finds the buffer set; what WriteTo writes goes into
\* the buffer, and its error is dropped.  Then the buffer is read; eof is
\* io.EOF.
ListerRead(l, rerr, n) ==
    LET l1 == [l EXCEPT !.buf = [nil |-> FALSE, data |-> <<>>]]
        w == WriteTo(l1, rerr, MaxEntries + 1)
        l2 == IF l.buf.nil THEN [w.l EXCEPT !.buf.data = @ \o w.out] ELSE l
        t == Taken(l2.buf.data, n)
    IN  [l |-> [l2 EXCEPT !.buf.data = SubSeq(@, Len(t.out) + 1, Len(@))],
         out |-> t.out, eof |-> l2.buf.data = <<>>]

\* A Lister as fileSession.list makes it, over any directory.  bytes.out is
\* what WriteTo has written, bytes.payload what the Reads have returned, and
\* bytes.rest the entries the directory had.
InitList ==
    /\ conn = "open"
    /\ cmd = NoCmd
    /\ greeted = FALSE
    /\ wire = <<>>
    /\ closes = 0
    /\ err = "nil"
    /\ ret = NoCmd
    /\ panicked = FALSE
    /\ link = "up"
    /\ calls = 0
    /\ call = NoCall
    /\ Data = NoData
    /\ EPSVOnly = FALSE
    /\ Dir = DefaultDir
    /\ renaming = <<>>
    /\ fscall = NoFs
    /\ pc = "idle"
    /\ prev = NoPrev
    /\ Type = DefaultType
    /\ Mode = DefaultMode
    /\ Old = {}
    /\ User = <<>>
    /\ Password = <<>>
    /\ Authorizer = "nil"
    /\ authcall = NoAuth
    /\ loggedIn = FALSE
    /\ client = NoClient
    /\ \E c \in {"LIST", "NLST"}, d \in Listings :
          /\ file = NewLister(c, d)
          /\ bytes = [NoBytes EXCEPT !.rest = d]

\* The call op on the Lister returns code (0 nil, 1 io.EOF, 2 another
\* error) and leaves it as l.
ListCalled(op, code, l) ==
    /\ file' = l
    /\ call' = [op |-> op, code |-> code]
    /\ UNCHANGED <<conn, cmd, greeted, wire, closes, err, ret, panicked, link,
                   Data, EPSVOnly, Dir, renaming, fscall, calls, pc, prev,
                   Type, Mode, User, Password, Old, Authorizer, authcall,
                   loggedIn, client>>

\* list.WriteTo(w)
ListWriteTo ==
    \E rerr \in BOOLEAN, room \in 0..(MaxEntries + 1) :
       LET w == WriteTo(file, rerr, room) IN
       /\ bytes' = [bytes EXCEPT !.out = w.out]
       /\ ListCalled("WriteTo", IF w.failed THEN 2 ELSE 0, w.l)

\* list.Read(b)
ListRead ==
    \E rerr \in BOOLEAN, n \in 1..2 :
       LET r == ListerRead(file, rerr, n) IN
       /\ bytes' = [bytes EXCEPT !.payload = @ \o r.out]
       /\ ListCalled("Read", IF r.eof THEN 1 ELSE 0, r.l)

NextList == ListWriteTo \/ ListRead

SpecList == InitList /\ [][NextList]_vars

----------------------------------------------------------------------------
(* handler.go: the commands of fileSession.handle that call the            *)
(* FileSystem, with the error each call returned kept in `call`            *)

\* No FileSystem error met by the current command.
NoFsErr == [op |-> "none", code |-> "nil"]

\* case "MKD" that puts the text of the error in its reply.
handleMKDText(s, c, e) ==
    LET r == [s EXCEPT !.fscall = FsCall("Mkdir", Path(s.Dir, c.Msg), <<>>)]
    IN  IF e # "nil" THEN Reply(r, 550, e)
        ELSE Reply(r, 257, <<"\"", c.Msg, "\" created.">>)

\* case "MKD"; e is what FileSystem.Mkdir returns.
handleMKD(s, c, e) ==
    LET r == [s EXCEPT !.fscall = FsCall("Mkdir", Path(s.Dir, c.Msg), <<>>)]
    IN  IF e # "nil" THEN Reply(r, 550, "Failed to create directory.")
        ELSE Reply(r, 257, <<"\"", c.Msg, "\" created.">>)

\* case "SIZE"; e is the error of FileSystem.Stat and dir what IsDir says.
handleSIZE(s, c, e, dir) ==
    LET r == [s EXCEPT !.fscall = FsCall("Stat", Path(s.Dir, c.Msg), <<>>)]
    IN  CASE e = "perm" -> Reply(r, 550, "Insufficient permissions.")
          [] e = "notexist" -> Reply(r, 550, "No such file.")
          [] e = "other" -> Reply(r, 550, "Could not get size.")
          [] dir -> Reply(r, 550, "Path specifies a directory.")
          [] OTHER -> Reply(r, 213, <<"size">>)

\* case "MDTM"
handleMDTM(s, c, e, dir) ==
    LET r == [s EXCEPT !.fscall = FsCall("Stat", Path(s.Dir, c.Msg), <<>>)]
    IN  CASE e = "perm" -> Reply(r, 550, "Insufficient permissions.")
          [] e = "notexist" -> Reply(r, 550, "No such file or directory.")
          [] e # "nil" \/ dir -> Reply(r, 550, "Could not get size.")
          [] OTHER -> Reply(r, 213, <<"mdtm">>)

\* case "DELE", "RMD"; e is what FileSystem.Remove returns.
handleDELE(s, c, e) ==
    IF c.Msg = <<>> THEN Reply(s, 501, "A file name is required.")
    ELSE LET r == [s EXCEPT !.fscall =
                        FsCall("Remove", Path(s.Dir, c.Msg), <<>>)]
         IN  CASE e = "perm" -> Reply(r, 550, "Insufficient permissions.")
               [] e = "notexist" -> Reply(r, 550, "No such file.")
               [] e = "other" -> Reply(r, 550, "Could not delete file.")
               [] OTHER -> Reply(r, 250, "Successfully deleted file.")

StatVerbs == {"CWD", "CDUP", "SIZE", "MDTM"}
ChangeVerbs == {"MKD", "DELE", "RMD", "RNTO"}

\* Lines the client sends to the dispatcher of a file system.
FsLines ==
    { [verb |-> v, msg |-> <<>>] :
        v \in {"NOOP", "QUIT", "PASV", "CDUP", "CWD", "DELE", "RNTO"} }
    \cup { [verb |-> v, msg |-> <<"a">>] :
             v \in StatVerbs \cup ChangeVerbs \cup TransferVerbs
                      \cup {"RNFR"} }

\* The FileSystem call a command has made with the error e it returned,
\* t being the session as the command left it.
FsMet(t, e) ==
    IF t.fscall = NoFs THEN NoFsErr ELSE [op |-> t.fscall.op, code |-> e]

InitFs ==
    /\ conn = "open"
    /\ cmd = NoCmd
    /\ greeted = FALSE
    /\ wire = <<>>
    /\ closes = 0
    /\ err = "nil"
    /\ ret = NoCmd
    /\ panicked = FALSE
    /\ link = "up"
    /\ calls = 0
    /\ call = NoFsErr
    /\ Data = NoData
    /\ EPSVOnly = FALSE
    /\ Dir = DefaultDir
    /\ renaming = <<>>
    /\ fscall = NoFs
    /\ pc = "command"
    /\ prev = NoPrev
    /\ Type = DefaultType
    /\ Mode = DefaultMode
    /\ Old = {}
    /\ User = <<>>
    /\ Password = <<>>
    /\ Authorizer = "nil"
    /\ authcall = NoAuth
    /\ loggedIn = FALSE
    /\ file = NoFile
    /\ client = NoClient
    /\ bytes = NoBytes

\* c, err := s.Command() in fileSession.Handle
FsCommand ==
    /\ Running /\ pc = "command"
    /\ ReadFrom(FsLines, "handle")
    /\ call' = NoFsErr
    /\ UNCHANGED <<calls, prev, dvars, xvars>>

\* CWD, CDUP, SIZE and MDTM: the commands that call Stat, on a file system
\* with directories down to MaxDepth.
FsStat ==
    /\ Handling(StatVerbs)
    /\ \E e \in FsErr, dir \in BOOLEAN :
          LET t == CASE cmd.Cmd = "CWD" -> handleCWD(Cur, cmd, e, dir)
                     [] cmd.Cmd = "CDUP" -> handleCDUP(Cur, e, dir)
                     [] cmd.Cmd = "SIZE" -> handleSIZE(Cur, cmd, e, dir)
                     [] OTHER -> handleMDTM(Cur, cmd, e, dir)
          IN  /\ Depth(t.Dir) <= MaxDepth
              /\ Loop(t, cmd)
              /\ call' = FsMet(t, e)
    /\ UNCHANGED <<calls, dvars, xvars>>

\* MKD, DELE, RMD and RNTO: the commands that change the file system.
FsChange ==
    /\ Handling(ChangeVerbs)
    /\ \E e \in FsErr :
          LET t == CASE cmd.Cmd = "MKD" -> handleMKD(Cur, cmd, e)
                     [] cmd.Cmd = "RNTO" -> handleRNTO(Cur, cmd, e)
                     [] OTHER -> handleDELE(Cur, cmd, e)
          IN  /\ Loop(t, cmd)
              /\ call' = FsMet(t, e)
    /\ UNCHANGED <<calls, dvars, xvars>>

\* LIST, NLST, RETR, STOR up to the 150 reply, or to the final reply when
\* the transfer does not start; e is what Open or Create returns.
FsBegin ==
    /\ Handling(TransferVerbs)
    /\ \E e \in FsErr :
          LET t == beginTransfer(Cur, cmd, e) IN
          /\ call' = FsMet(t, e)
          /\ IF t.err = "nil"
             THEN Store(t) /\ pc' = "transfer" /\ prev' = prev
             ELSE Loop(replyTransfer(t, cmd), cmd)
    /\ UNCHANGED <<calls, dvars, xvars>>

\* LIST, NLST, RETR, STOR from the copy to the final reply; e is the error
\* of reading the file or the directory, and for STOR of closing the file,
\* which store comes to when the copy has returned no error.
FsFinish ==
    /\ Running /\ pc = "transfer"
    /\ \E e \in FsErr, empty, ok \in BOOLEAN :
          /\ \/ Ready(Data)
             \/ cmd.Cmd # "STOR" /\ e # "nil"
             \/ cmd.Cmd \in {"RETR", "NLST"} /\ empty
          /\ Loop(replyTransfer(endTransfer(Cur, cmd, e, empty, ok), cmd), cmd)
          /\ call' = IF cmd.Cmd # "STOR" THEN [op |-> "Read", code |-> e]
                     ELSE IF ConnRead(Cur, ok).err = "nil"
                     THEN [op |-> "Close", code |-> e]
                     ELSE NoFsErr
    /\ UNCHANGED <<calls, dvars, xvars>>

NextFs ==
    \/ FsCommand
    \/ HandleFixed
    \/ HandleRNFR
    \/ HandlePASV
    \/ FsStat
    \/ FsChange
    \/ FsBegin
    \/ FsFinish
    \/ Accept
    \/ AcceptFail
    \/ Listen
    \/ ServerClose
    \/ Drop

SpecFs == InitFs /\ [][NextFs]_vars

----------------------------------------------------------------------------
(* Properties of the data endpoint (SpecConn)                              *)

\* A step that is a call of one of the operations.
ConnCall(ops) == calls' = calls + 1 /\ call'.op \in ops

\* A step that leaves the session with the endpoint it had.
SameConn == ~ConnCall({"Passive", "Active"}) /\ Data # NoData

\* A step in which a Read or a Write returns, at once or after its wait.
Returns(ops) ==
    \/ ConnCall(ops) /\ pc' = "idle"
    \/ calls' = calls /\ pc \in {"read", "write"} /\ pc' = "idle"
          /\ call.op \in ops

Streams(w) == Cardinality({ i \in 1..Len(w) : w[i].ev = "stream" })

\* A step in which bytes move over the stream of the endpoint.
Transfers ==
    IF calls' = calls THEN Streams(wire') > Streams(wire)
    ELSE Streams(wire') > 0

\* An endpoint that holds an open listener or an open stream.
IsOpen(d) ==
    /\ d.kind # "nil"
    /\ d.active = "open" \/ (d.active = "none" /\ ~d.lclosed)

\* C11 (state part): of the endpoints a session has made, at most one is
\* open.
C11_OneOpen ==
    Cardinality({ d \in Old : IsOpen(d) }) + (IF IsOpen(Data) THEN 1 ELSE 0) <= 1

\* C11 (step part): Active and Passive close the endpoint that is attached
\* before they install, or try to install, a new one.
C11_Step ==
    (ConnCall({"Passive", "Active"}) /\ Data # NoData)
    => \E i \in 1..Len(wire') : wire'[i].ev = "dclose"

\* C11: a session owns at most one open data endpoint at any time; when
\* Active or Passive installs a new one, the one attached before has been
\* closed first.
C11_OneEndpoint == []C11_OneOpen /\ [][C11_Step]_vars

\* C13 (step part): Read and Write on an endpoint with neither a stream nor
\* an accept error wait and move nothing; with a stream they go on at once
\* on the stream; with the accept error they return it at once; a waiting
\* call goes on only when one of the two is set; the accept error stays.
C13_Step ==
    /\ (ConnCall({"Read", "Write"}) /\ Data.active = "none" /\ ~Data.aerr)
       => (pc' \in {"read", "write"} /\ ~Transfers /\ Data' = Data)
    /\ (ConnCall({"Read", "Write"}) /\ Data.active # "none" /\ ~Data.aerr)
       => (pc' = "idle" /\ Transfers)
    /\ (ConnCall({"Read", "Write"}) /\ Data.aerr)
       => (pc' = "idle" /\ err' = "accept" /\ ~Transfers)
    /\ (pc \in {"read", "write"} /\ pc' # pc)
       => /\ Data.active # "none" \/ Data.aerr
          /\ IF Data.aerr THEN err' = "accept" /\ ~Transfers ELSE Transfers
    /\ (SameConn /\ Data.aerr) => Data'.aerr

\* C13 (state part): a call waits only while neither is set or the waker has
\* not run yet; with the accept error set no stream is set.
C13_Inv == Data.aerr => Data.active = "none"

\* C13: on a passive endpoint Read and Write block while neither a stream nor
\* an accept error is set, go on on the stream once the accept succeeded, and
\* return the accept error at once, for ever, once it failed.
C13_ReadWriteWait == []C13_Inv /\ [][C13_Step]_vars

\* A Write waited on a passive endpoint, the accept failed, and the Write
\* returned the accept error.
C13_Witness ==
    /\ pc = "idle" /\ call.op = "Write" /\ err = "accept"
    /\ Data.kind = "passive" /\ Data.aerr /\ Streams(wire) = 0

\* C14 (step part): once Accept has returned on an endpoint it is not called
\* again; the stream and the accept error are set by listen only, and once
\* set they stay.
C14_Step ==
    SameConn
    => /\ Data.got # "none" => Data'.got \in {Data.got, "stored"}
       /\ Data.got = "stored" => Data'.got = "stored"
       /\ ((Data.active = "none") # (Data'.active = "none")
             \/ Data.aerr # Data'.aerr)
          => (calls' = calls /\ pc' = pc /\ Data.got \in {"conn", "err"}
                /\ Data'.got = "stored")
       /\ Data.active # "none" => Data'.active # "none"
       /\ Data.aerr => Data'.aerr

\* C14 (state part): when the result is stored the listener is closed, and
\* the result is a stream or an error, not both.
C14_Inv ==
    Data.kind = "passive"
    => /\ Data.got = "stored" => Data.lclosed
       /\ Data.got = "stored" => (Data.active # "none") # Data.aerr
       /\ Data.got # "stored" => (Data.active = "none" /\ ~Data.aerr)

\* C14: a passive endpoint accepts exactly once and closes its listener
\* afterwards; only the background task sets the stream and the accept
\* error, so there is never more than one stream and the result never
\* changes.
C14_OneAccept == []C14_Inv /\ [][C14_Step]_vars

\* A passive endpoint has accepted, was written to and closed; its result is
\* still the one stream.
C14_Witness ==
    /\ Data.kind = "passive" /\ Data.got = "stored" /\ Data.lclosed
    /\ Data.active = "closed" /\ ~Data.aerr
    /\ \E i \in 1..Len(wire) : wire[i].ev = "flush"

\* C15: once Close has returned on an endpoint, the endpoint never becomes
\* accepted, holds no open stream, and every Read or Write that returns,
\* after a wait or not, returns an error.
C15_Step ==
    (SameConn /\ Data.closed)
    => /\ Data.active = "none" => Data'.active = "none"
       /\ Data'.active # "open"
       /\ Returns({"Read", "Write"}) => err' # "nil"

C15_ClosedIsTerminal == [][C15_Step]_vars

\* C16: Close delivers every byte Write has accepted to the stream before it
\* closes the stream; a Close after the first one returns without a panic and
\* gets no more bytes to the stream.
C16_Step ==
    ConnCall({"Close"})
    => /\ ~panicked'
       /\ Data'.closed
       /\ (Data.active = "open" /\ Data.buffered)
          => /\ wire' = <<Ev("flush", 0, "ok"), Ev("dclose", 0, "stream")>>
             /\ ~Data'.buffered /\ Data'.active = "closed"
       /\ (Data.active = "open" /\ ~Data.buffered)
          => wire' = <<Ev("dclose", 0, "stream")>>
       /\ Data.closed
          => ~ \E i \in 1..Len(wire') :
                   wire'[i].ev = "flush" /\ wire'[i].x = "ok"

C16_CloseFlushes == [][C16_Step]_vars

\* C17: a caller of Conn.accept (LocalAddr, RemoteAddr, SetDeadline, ...)
\* waits only while neither a stream nor an accept error is set: on an
\* active endpoint and on a passive one whose accept has completed the call
\* returns.
C17_Step ==
    /\ (ConnCall({"LocalAddr"}) /\ (Data.active # "none" \/ Data.aerr))
       => pc' = "idle"
    /\ (pc = "accessor" /\ calls' = calls /\ (Data'.active # "none" \/ Data'.aerr))
       => pc' = "idle"

C17_AccessorsReturn == [][C17_Step]_vars

----------------------------------------------------------------------------
(* Properties of Conn.Write (SpecAscii)                                    *)

\* The payload bytes the Write calls so far were given.
Given == SubSeq(bytes.payload, 1, Len(bytes.payload) - Len(bytes.rest))

RECURSIVE WithCRs(_, _)
\* The first i bytes of p with a CR put before each LF that has no CR right
\* before it in p.
WithCRs(p, i) ==
    IF i = 0 THEN <<>>
    ELSE WithCRs(p, i - 1) \o
         (IF p[i] = "\n" /\ (i = 1 \/ p[i - 1] # "\r")
          THEN <<"\r", "\n">> ELSE <<p[i]>>)

\* C18 (state part): while no Write has failed, the bytes handed to the
\* stream are, with type A, the payload given so far with a CR before each LF
\* not preceded by a CR, and with type I the payload given so far.
C18_Emitted ==
    pc = "idle" =>
        bytes.out = IF Data.typ = "A" THEN WithCRs(Given, Len(Given)) ELSE Given

\* C18 (step part): a Write that returns no error returns the number of
\* payload bytes it was given.
C18_Step ==
    (pc = "idle" /\ pc' = "idle")
    => bytes'.n = Len(bytes.rest) - Len(bytes'.rest)

\* C18: with type A, for every payload and every split of it into Write
\* calls, the bytes emitted are the payload with a CR inserted before each LF
\* that no CR precedes in the stream so far, and each Write returns the
\* number of payload bytes consumed; with type I the bytes are unchanged.
C18_AsciiWrite == []C18_Emitted /\ [][C18_Step]_vars

\* Type A, a Write has ended on a CR and the next one starts with its LF:
\* "a\na\r" has gone out as "a\r\na\r".
C18_Witness ==
    /\ pc = "idle" /\ Data.typ = "A" /\ Data.cr
    /\ bytes.payload = <<"a", "\n", "a", "\r", "\n", "a">>
    /\ bytes.rest = <<"\n", "a">>
    /\ bytes.out = <<"a", "\r", "\n", "a", "\r">>
    /\ bytes.n = 1

----------------------------------------------------------------------------
(* Properties of the login and of the working directory (SpecLogin)        *)

\* A step in which AuthHandler.handle, or fileSession.handle, is run on the
\* command read last.
AuthStep == pc = "authhandle" /\ pc' # pc
DispatchStep == pc = "handle" /\ pc' # pc

\* The step has answered with code n, or could not write its reply.
Answers(n) ==
    /\ WireFinal(wire') \in {0, n}
    /\ err' = "nil" => WireFinal(wire') = n

\* Paths a client names.
PathArgs ==
    { <<>>, <<".">>, <<"..">>, <<"a">>, <<"/">>, <<"/", "a">>,
      <<"/", "a", "/", "..">>, <<"a", "/", "..", "/", "b">>,
      <<"..", "/", "..">>, <<"/", "..">> }

\* C21 (state part): the working directory is absolute, and from it, as from
\* an empty one, Path gives an absolute path that Path leaves as it is.
C21_Absolute ==
    /\ IsAbs(Dir)
    /\ \A d \in {Dir, <<>>} : \A p \in PathArgs :
          /\ IsAbs(Path(d, p))
          /\ Path(d, Path(d, p)) = Path(d, p)

\* C21 (step part): the working directory changes only in a CWD or CDUP
\* whose answer is 250, to the path Stat was called on; a CWD or CDUP
\* answered 550 leaves it as it was, and these two are the answers there
\* are; CDUP at "/" stays at "/".
C21_Step ==
    /\ Dir' # Dir
       => /\ DispatchStep /\ cmd.Cmd \in {"CWD", "CDUP"}
          /\ Answers(250)
          /\ fscall'.op = "Stat" /\ Dir' = fscall'.a
          /\ Dir' = Path(Dir, IF cmd.Cmd = "CWD" THEN cmd.Msg ELSE <<"..">>)
    /\ (DispatchStep /\ cmd.Cmd \in {"CWD", "CDUP"})
       => /\ WireFinal(wire') \in {0, 250, 550}
          /\ WireFinal(wire') = 550 => Dir' = Dir
          /\ WireFinal(wire') = 250 => Dir' = fscall'.a
    /\ (DispatchStep /\ cmd.Cmd = "CDUP" /\ Dir = <<"/">>) => Dir' = <<"/">>

\* C21: the working directory is always an absolute path; Path(p) is
\* absolute and Path(Path(p)) = Path(p); CWD and CDUP change the directory
\* only when they answer 250 and not when they answer 550, and CDUP at "/"
\* stays at "/".
C21_WorkingDirectory == []C21_Absolute /\ [][C21_Step]_vars

\* CWD a, answered 250, has taken the session from /a to /a/a.
C21_Witness ==
    /\ pc = "command" /\ ret.Cmd = "CWD" /\ ret.Msg = <<"a">>
    /\ WireFinal(wire) = 250
    /\ Dir = <<"/", "a", "/", "a">>

\* C22 (state part): with an Authorizer, until a PASS has been answered 230
\* no FileSystem call has been made, no data endpoint has been set up, and
\* the dispatcher handles no command.
C22_NothingBeforeLogin ==
    (Authorizer = "set" /\ ~loggedIn)
    => /\ fscall = NoFs
       /\ Data = NoData /\ Old = {}
       /\ pc \notin {"handle", "transfer"}

\* C22 (step part): with an Authorizer, until then a verb other than USER,
\* PASS and QUIT is answered 530.
C22_Step ==
    (Authorizer = "set" /\ ~loggedIn /\ (AuthStep \/ DispatchStep)
       /\ cmd.Cmd \notin {"USER", "PASS", "QUIT"})
    => (Answers(530) /\ ~loggedIn')

\* C22: when FileHandler has an authorizer, no filesystem operation and no
\* data-endpoint setup is performed before a PASS has been answered 230, and
\* every other verb than USER, PASS and QUIT received before that is
\* answered 530.
C22_AuthFirst == []C22_NothingBeforeLogin /\ [][C22_Step]_vars

\* RETR sent before the login has been answered 530.
C22_Witness ==
    /\ Authorizer = "set" /\ ~loggedIn /\ User = <<"foo">>
    /\ pc = "auth" /\ ret.Cmd = "RETR" /\ WireFinal(wire) = 530

\* C23 (step part): QUIT in the auth layer is answered 211 and closes the
\* session, and the auth layer returns nil; the dispatcher, started on the
\* closed session, gets an error from Command without a read and returns.
C23_Step ==
    /\ (AuthStep /\ cmd.Cmd = "QUIT")
       => /\ Answers(211)
          /\ IF err' = "nil"
             THEN conn' = "nil" /\ closes' = closes + 1 /\ pc' = "command"
             ELSE pc' = "returned"
    /\ (pc = "command" /\ conn = "nil" /\ pc' # pc)
       => /\ pc' = "returned" /\ err' = "closed"
          /\ wire' = <<>> /\ cmd' = cmd /\ fscall' = NoFs

\* C23 (state part): on a closed session the handler is about to call
\* Command, or has returned.
C23_Closed == conn = "nil" => pc \in {"command", "returned", "closed"}

\* C23: a QUIT received during the auth sub-protocol is answered 211 and
\* ends the session: the session is closed, the dispatcher reads and
\* processes no command, and FileHandler.Handle returns.
C23_QuitInAuth == []C23_Closed /\ [][C23_Step]_vars

\* After a QUIT in the auth layer the dispatcher has returned without a
\* read.
C23_Witness ==
    /\ Authorizer = "set" /\ ~loggedIn
    /\ pc = "returned" /\ conn = "nil" /\ err = "closed" /\ wire = <<>>
    /\ closes = 1

\* C24: a PASS the Authorizer rejects is answered 430, clears the user,
\* records no password and leaves the session open and in the auth layer; a
\* PASS with no user recorded (so one that follows without a new USER) is
\* answered 503 and Authorize is not called; a PASS the Authorizer accepts
\* is answered 230 and its password recorded.
C24_Step ==
    (AuthStep /\ cmd.Cmd = "PASS" /\ Authorizer = "set")
    => /\ User = <<>>
          => (Answers(503) /\ authcall' = NoAuth /\ User' = <<>>)
       /\ User # <<>>
          => authcall' \in [user : {User}, pass : {cmd.Msg}, out : AuthOutcomes]
       /\ authcall'.out = "deny"
          => /\ Answers(430)
             /\ User' = <<>> /\ Password' = Password /\ ~loggedIn'
             /\ conn' = "open"
             /\ err' = "nil" => pc' = "auth"
       /\ authcall'.out = "allow"
          => /\ Answers(230)
             /\ User' = User /\ Password' = cmd.Msg /\ conn' = "open"
             /\ err' = "nil" => (pc' = "command" /\ loggedIn')

C24_RejectedPass == [][C24_Step]_vars

\* The Authorizer has rejected a PASS: 430, no user, no password, and the
\* session goes on.
C24_Witness ==
    /\ pc = "auth" /\ ret.Cmd = "PASS" /\ authcall.out = "deny"
    /\ authcall.user = <<"foo">>
    /\ WireFinal(wire) = 430
    /\ User = <<>> /\ Password = <<>> /\ conn = "open"

\* C25 (as claimed): when the handler has returned an error, the server
\* closes the session and no reply is written any more.
C25_Step ==
    (pc = "returned" /\ err # "nil" /\ pc' = "closed")
    => /\ conn' = "nil"
       /\ \A i \in 1..Len(Added) : Added[i].ev # "reply"

C25_NoReplyAfterError == [][C25_Step]_vars

\* C25 (amended): an error of Authorize during PASS clears the user and is
\* returned without a reply; when the handler has returned an error the
\* server closes the session, and the one reply that can still be written
\* is the 421 goodbye of Session.Close, written when the command read last
\* is unanswered.
C25_AmendedStep ==
    /\ (AuthStep /\ authcall'.out = "error")
       => /\ User' = <<>> /\ Password' = Password /\ ~loggedIn'
          /\ wire' = wire /\ cmd' = cmd
          /\ err' = "auth" /\ pc' = "returned"
    /\ (pc = "returned" /\ err # "nil" /\ pc' = "closed")
       => /\ conn' = "nil"
          /\ \A i \in 1..Len(Added) :
                Added[i].ev = "reply"
                => (Added[i].n = 421 /\ Added[i].x = DefaultGoodbye
                      /\ i = 1 /\ cmd # NoCmd)
          /\ (cmd # NoCmd /\ conn = "open" /\ link # "down")
             => (Len(Added) > 0 /\ Added[1].ev = "reply")

C25_NoReplyAfterErrorAmended == [][C25_AmendedStep]_vars

\* Authorize has returned an error, the handler has returned it, and the
\* server has closed the session, the 421 going out first.
C25_Witness ==
    /\ pc = "closed" /\ authcall.out = "error" /\ conn = "nil"
    /\ User = <<>> /\ ~loggedIn
    /\ WireFinal(wire) = 421

\* C26 (as claimed): without an Authorizer USER anonymous is answered 331
\* and a PASS that follows 230; USER with another name is answered 331 and
\* records no user.
C26_Step ==
    (Authorizer = "nil" /\ (AuthStep \/ DispatchStep) /\ cmd.Cmd = "USER"
       /\ cmd.Msg # <<>>)
    => (Answers(331) /\ (cmd.Msg # <<"anonymous">> => User' = User))

C26_Anonymous == [][C26_Step]_vars

\* C26 (amended): where the auth layer runs without an Authorizer, USER
\* anonymous is answered 331 and records the user, USER with another name
\* is answered 331 and records none, PASS is answered 230 when the user
\* recorded is anonymous, and a login completes with that user only.  A
\* FileHandler without an Authorizer runs no auth layer: its dispatcher
\* answers USER 530 and PASS 230.
C26_AmendedStep ==
    Authorizer = "nil"
    => /\ (AuthStep /\ cmd.Cmd = "USER" /\ cmd.Msg # <<>>)
          => /\ Answers(331)
             /\ User' = IF cmd.Msg = <<"anonymous">> THEN cmd.Msg ELSE User
       /\ (AuthStep /\ cmd.Cmd = "PASS" /\ User = <<"anonymous">>)
          => (Answers(230) /\ authcall' = NoAuth)
       /\ (loggedIn' /\ ~loggedIn) => User' = <<"anonymous">>
       /\ (DispatchStep /\ cmd.Cmd = "USER") => (Answers(530) /\ User' = User)
       /\ (DispatchStep /\ cmd.Cmd = "PASS") => Answers(230)

C26_AnonymousAmended ==
    [](Authorizer = "nil" => User \in {<<>>, <<"anonymous">>})
      /\ [][C26_AmendedStep]_vars

\* Without an Authorizer USER foo has been answered 331 with no user
\* recorded.
C26_Witness ==
    /\ Authorizer = "nil" /\ pc = "auth"
    /\ ret.Cmd = "USER" /\ ret.Msg = <<"foo">>
    /\ WireFinal(wire) = 331 /\ User = <<>>

----------------------------------------------------------------------------
(* Properties of store and retrieve (SpecStore)                            *)

\* The step in which store or retrieve, having sent its 150, goes through
\* the copy and the final reply.
Finishes(verb) == pc = "transfer" /\ cmd.Cmd = verb /\ pc' # "transfer"

\* C27: STOR copies from the data endpoint into the file.  When a STOR ends
\* with 226 the file holds exactly the bytes the client wrote on the data
\* connection, and when a RETR of a file that holds the bytes of the last
\* STOR ends with 226, the client has received exactly those bytes.
C27_Step ==
    /\ (Finishes("STOR") /\ WireFinal(wire') = 226)
          => file' = bytes'.payload
    /\ (Finishes("RETR") /\ WireFinal(wire') = 226 /\ file = bytes.payload)
          => bytes'.out = bytes.payload

C27_StoreThenRetrieve == [][C27_Step]_vars

\* C36: a transfer on a passive endpoint that is answered 226 has had the
\* connection of the client accepted before the endpoint was closed, and
\* for a RETR the client has received the contents of the file, also when
\* the file is empty.
C36_Step ==
    (/\ pc = "transfer" /\ pc' # "transfer"
     /\ Data.kind = "passive" /\ WireFinal(wire') = 226)
       => /\ Data'.active # "none" /\ ~Data'.aerr
          /\ cmd.Cmd = "RETR" => bytes'.out = file

C36_AcceptedBeforeClose == [][C36_Step]_vars

----------------------------------------------------------------------------
(* Properties of the client's transfers (SpecClient)                       *)

\* A call of one of ops on the clientFile returns in this step.
FileStep(ops) == client'.op \in ops /\ client'.calls = client.calls + 1

FileOps == {"Seek", "Read", "Write", "Readdir", "Close"}

\* The step is Client.Open or Client.Create.
OpensFile == client'.op \in {"Open", "Create"} /\ client'.calls = 0

\* Where the call that returns in this step did c.
Did(c) == { i \in DOMAIN client'.log : client'.log[i].c = c }

\* Where it sent a transfer command.
SentTransfer == Did("RETR") \cup Did("STOR") \cup Did("NLST")

\* The commands data acquires the endpoint with.
Asked == {"EPSV", "PASV", "EPRT", "PORT"}

\* C28: the client asks with EPSV first, with PASV when EPSV was not
\* answered 229, and listens and sends EPRT and then PORT only when that
\* gave no endpoint; data returns an endpoint only when one of these
\* commands got a success reply, returns one when EPRT or PORT got a
\* success reply and no exchange failed, and returns none when every
\* command it sent was refused.
C28_Step ==
    LET L == client'.log
        accepted == { i \in DOMAIN L : L[i].c \in Asked /\ Success(L[i].r) }
        refused == { i \in DOMAIN L : L[i].c \in Asked /\ L[i].r >= 300 }
        asked == { i \in DOMAIN L : L[i].c \in Asked }
    IN  (FileStep(FileOps) /\ Did("EPSV") # {}) =>
          /\ Did("EPSV") = {1}
          /\ \A i \in Did("PASV") : i = 2 /\ L[1].r # 229
          /\ \A i \in Did("listen") :
                \A j \in 1..(i - 1) : L[j] # CEv("dial", 1)
          /\ \A i \in Did("EPRT") : \E j \in Did("listen") : j < i
          /\ \A i \in Did("PORT") : \E j \in Did("EPRT") : j < i
          /\ Did("conn") # {} => accepted # {}
          /\ ( /\ \E i \in accepted : L[i].c \in {"EPRT", "PORT"}
               /\ \A i \in asked : L[i].r # 0 ) => Did("conn") # {}
          /\ (Did("EPRT") # {} /\ refused = asked) => Did("conn") = {}

C28_DataAcquisition == [][C28_Step]_vars

\* C29: in every call on a clientFile the transfer command is sent after
\* data has returned the endpoint, bytes are read or written after the
\* command and before the endpoint is closed, replies are read only after
\* the endpoint is closed, reading goes on after a preliminary reply and
\* stops at the first other one; a 2xx reply ends the transfer without an
\* error and any other terminal reply with "transfer failed".
C29_Step ==
    LET L == client'.log
        last == L[Len(L)]
    IN  FileStep(FileOps) =>
          /\ \A i \in SentTransfer : \E j \in Did("conn") : j < i
          /\ \A i \in Did("read") \cup Did("write") :
                /\ client.conn # "nil" \/ \E j \in SentTransfer : j < i
                /\ \A j \in 1..(i - 1) : L[j].c \notin {"dclose", "reply"}
          /\ \A i \in Did("reply") :
                \E j \in 1..(i - 1) :
                   /\ L[j] = CEv("dclose", 1)
                   /\ \A k \in (j + 1)..(i - 1) :
                         L[k].c = "reply" /\ Preliminary(L[k].r)
          /\ \A i \in Did("reply") : Preliminary(L[i].r) <=> i < Len(L)
          /\ (L # <<>> /\ last.c = "reply" /\ Success(last.r))
                => client'.res \in {"nil", "eof"} /\ client'.conn = "nil"
          /\ (L # <<>> /\ last.c = "reply" /\ last.r # 0 /\ ~Success(last.r))
                => client'.res = "transfer failed"

\* A clientFile holds an endpoint only once its transfer command was sent.
C29_Inv == client.conn # "nil" => client.xfers >= 1

C29_TransferOrder == []C29_Inv /\ [][C29_Step]_vars

\* A Read has gone through a whole transfer: endpoint, RETR, the end of the
\* data, the close, a preliminary reply and the 226.
C29_Witness ==
    /\ client.op = "Read" /\ client.res = "eof"
    /\ \E i \in DOMAIN client.log : client.log[i] = CEv("RETR", 1)
    /\ \E i \in DOMAIN client.log : client.log[i] = CEv("reply", 150)
    /\ client.log[Len(client.log)] = CEv("reply", 226)

\* C30: Open and Create send nothing; a transfer command is sent only by
\* Read (RETR), Write (STOR) and Readdir (NLST), and by no call on a
\* clientFile that has sent one before; Read and Write on a closed
\* clientFile return an error and send nothing.
C30_Step ==
    LET L == client'.log IN
    /\ OpensFile => L = <<>> /\ client'.xfers = 0
    /\ FileStep(FileOps) =>
          /\ Did("RETR") # {} => client'.op = "Read"
          /\ Did("STOR") # {} => client'.op = "Write"
          /\ Did("NLST") # {} => client'.op = "Readdir"
          /\ client.xfers >= 1 => SentTransfer = {}
    /\ (FileStep({"Read", "Write"}) /\ client.closed)
          => client'.res = "closed" /\ L = <<>>

C30_LazyOnce == [][C30_Step]_vars

\* C31: a Seek with a whence other than start, and a Seek on a clientFile
\* whose transfer has started, returns an error and leaves the offset as it
\* was; a Read that sends RETR with an offset recorded has sent REST before
\* and got a success reply, and a Read whose REST is refused sends no RETR.
C31_Step ==
    LET L == client'.log IN
    /\ (FileStep({"Seek"}) /\ (Did("start") = {} \/ client.xfers >= 1))
          => client'.res = "cannot seek" /\ client'.seek = client.seek
    /\ FileStep({"Read"}) =>
          /\ (client.seek # 0 /\ Did("RETR") # {})
                => \E i \in Did("REST") :
                      Success(L[i].r) /\ \A j \in Did("RETR") : i < j
          /\ (\E i \in Did("REST") : ~Success(L[i].r)) => Did("RETR") = {}

C31_SeekThenRest == [][C31_Step]_vars

\* The call that returns in this step has run finish: it has closed the
\* data endpoint of a transfer (start closes the one of a refused REST).
FinishRan ==
    \E i \in Did("dclose") : i = 1 \/ client'.log[i - 1].c # "REST"

\* C39: a Read, Readdir or Close that has run finish and has met no error
\* of the control connection has read the final reply to the transfer
\* command.
C39_Step ==
    LET L == client'.log IN
    (/\ FileStep({"Read", "Readdir", "Close"}) /\ FinishRan
     /\ \A i \in Did("reply") : L[i].r # 0)
       => \E i \in Did("reply") : L[i].r >= 200

C39_RepliesRead == [][C39_Step]_vars

----------------------------------------------------------------------------
(* Properties of a Read at an offset served by the dispatcher (SpecSeek)   *)

\* C32: a Read of a clientFile with the offset K recorded is not refused
\* by this server's dispatcher, and when it has come to its end the client
\* has received the contents of the file from byte K on (from byte 0 when
\* no offset is recorded).
C32_SeekDelivers ==
    /\ client.res # "could not seek"
    /\ client.res = "eof"
          => bytes.out = SubSeq(file, client.seek + 1, Len(file))

----------------------------------------------------------------------------
(* Properties of the Lister (SpecList)                                     *)

\* The listing of the entries d for the command c, line by line.
Listed(c, d, out) ==
    LET t == IF c = "NLST" THEN 0 ELSE 1 IN
    /\ Len(out) = Len(d) + t
    /\ t = 1 => out[1] = TotalLine(Len(d))
    /\ \A i \in 1..Len(d) :
          out[i + t] = IF c = "NLST" THEN NameLine(d[i]) ELSE EntryLine(d[i])

\* C33: the first call on a Lister being a WriteTo that returns no error,
\* LIST has written one total line with the number of entries and then one
\* line for each entry in the order of the directory, and NLST one line
\* with the name for each entry and no total line; for an empty directory
\* that is the line "total 0" for LIST and nothing for NLST.
C33_Step ==
    (call = NoCall /\ call'.op = "WriteTo" /\ call'.code = 0)
       => /\ Listed(file.Cmd, bytes.rest, bytes'.out)
          /\ bytes.rest = <<>> =>
                bytes'.out = IF file.Cmd = "LIST" THEN <<TotalLine(0)>> ELSE <<>>

C33_Listing == [][C33_Step]_vars

\* NLST of two entries has been written out.
C33_Witness ==
    /\ call = [op |-> "WriteTo", code |-> 0]
    /\ file.Cmd = "NLST" /\ Len(bytes.rest) = 2
    /\ bytes.out = <<NameLine(bytes.rest[1]), NameLine(bytes.rest[2])>>

\* C40: a Lister that is only read gives, up to the Read that returns
\* io.EOF, the lines WriteTo writes for the directory and the command.
C40_ReadIsWriteTo ==
    (call = [op |-> "Read", code |-> 1] /\ bytes.out = <<>>)
       => Listed(file.Cmd, bytes.rest, bytes.payload)

----------------------------------------------------------------------------
(* Properties of the file-system commands of the dispatcher (SpecFs)       *)

\* The message of the reply to the command verb whose FileSystem call
\* returned an error of the kind k.
FsMessage(verb, k) ==
    CASE k = "perm" /\ verb # "MKD" -> "Insufficient permissions."
      [] verb = "MKD" -> "Failed to create directory."
      [] verb \in {"CWD", "CDUP", "LIST", "NLST"} ->
            IF k = "notexist" THEN "No such directory."
            ELSE IF verb \in {"CWD", "CDUP"} THEN "Failed to change directory."
            ELSE "Error listing directory."
      [] verb = "MDTM" ->
            IF k = "notexist" THEN "No such file or directory."
            ELSE "Could not get size."
      [] verb = "STOR" -> "Error storing file."
      [] k = "notexist" -> "No such file."
      [] verb = "SIZE" -> "Could not get size."
      [] verb = "RETR" -> "Error retrieving file."
      [] verb = "RNTO" -> "Could not rename file."
      [] OTHER -> "Could not delete file."

\* The command being handled comes to its end with an error of a
\* FileSystem call.
FsFails ==
    /\ pc \in {"handle", "transfer"} /\ pc' \in {"command", "returned"}
    /\ call'.code # "nil"

\* C34: a command of the dispatcher whose FileSystem call returns an error
\* is answered, while the control connection can be written to, with one
\* final reply after it was read, a 5xx whose message is fixed by the verb and the kind of
\* the error, and the dispatcher goes on to read the next command.
C34_Step ==
    (FsFails /\ link # "down") =>
       LET F == { i \in DOMAIN wire' :
                     /\ wire'[i].ev = "reply" /\ wire'[i].n >= 200
                     /\ \E j \in 1..(i - 1) : wire'[j].ev = "read" }
       IN  /\ Cardinality(F) = 1
           /\ \A i \in F : /\ wire'[i].n \in 500..599
                           /\ wire'[i].x = FsMessage(cmd.Cmd, call'.code)
           /\ pc' = "command"

C38_Step ==
    (/\ Handling(TransferVerbs) /\ pc' # "handle"
     /\ call'.op \in {"Open", "Create"} /\ call'.code # "nil")
       => /\ \A i \in DOMAIN wire' :
                wire'[i].ev = "reply" => wire'[i].n # 150
          /\ \E i \in DOMAIN wire' : wire'[i].ev = "dclose"
          /\ Data'.closed
          /\ link # "down" =>
                /\ WireFinal(wire') = 550
                /\ Cardinality({ i \in DOMAIN wire' :
                                    wire'[i].ev = "reply" }) = 1

C38_OpenFails == [][C38_Step]_vars

\* A STOR on a passive endpoint whose file could not be created has been
\* answered 550 with the endpoint closed.
C38_Witness ==
    /\ call = [op |-> "Create", code |-> "perm"]
    /\ pc = "command" /\ link # "down"
    /\ Data.kind = "passive" /\ Data.closed
    /\ WireFinal(wire) = 550

====
